---- MODULE Spec2Model ----
(***************************************************************************)
(* Model of the AI Automation Builder (app.py, llm_integration.py):        *)
(* the start-up sequence of main(), the process-wide llm_initialized flag, *)
(* the singleton LLM manager, and the generation of an automation from a   *)
(* description by create_automation_from_description (simple rule set) and *)
(* LLMManager._get_smart_template (richer rule set).                       *)
(*                                                                         *)
(* A Python str is a sequence of one-character strings, so that `in`,      *)
(* lower(), slicing and concatenation are computed on the characters.      *)
(***************************************************************************)
EXTENDS Integers, Sequences, FiniteSets, TLC

VARIABLES
    pc,               \* position of main(): which step runs next
    llm_initialized,  \* app.py global flag llm_initialized
    llm_manager,      \* llm_integration.py singleton _llm_manager
    words,            \* the phrases of the description of the current request
    automation,       \* value returned by create_automation_from_description
    response,         \* HTTP response of the request handler
    llm_invoked,      \* LLMManager.generate_automation ran in this request
    failure,          \* where an exception was raised in this request
    fell_back,        \* an earlier request fell back after an LLM failure
    environ,          \* os.environ: USE_LLM and HA_TOKEN
    steps,            \* the functions main() has called, in order
    dependencies,     \* what check_and_install_dependencies returned
    HA_TOKEN,         \* run_flask_app's HA_TOKEN, None without a token
    request,          \* the gateway request being handled
    outbound,         \* the calls sent to Home Assistant by this request
    ha_response,      \* HTTP response of the gateway handler
    call,             \* which call with this description was answered
    yaml_text,        \* the 'yaml' text of the answer, None when not followed
    parsed            \* what the client has parsed this text to

vars == <<pc, llm_initialized, llm_manager, words, automation, response,
          llm_invoked, failure, fell_back, environ, steps, dependencies,
          HA_TOKEN, request, outbound, ha_response, call, yaml_text,
          parsed>>

\* ---------------------------------------------------------------- bounds
\* A request description is made of at most MaxWords phrases.
MaxWords == 3

\* The phrases descriptions are made of, in the order they may follow one
\* another in a description.
Vocabulary ==
    <<"Turn on", "turn off", "enable", "lights", "notify", "notification",
      "Motion", "detected", "door", "opened", "closed", "at sunset",
      "sunrise", "dawn", "morning", "Evening", "midnight", "noon",
      "each weekday while we are away from the house">>

\* ------------------------------------------------------- character tables
\* The characters of each phrase of the vocabulary.
Spell ==
    ("Turn on" :>
        <<"T", "u", "r", "n", " ", "o", "n">>) @@
    ("turn off" :>
        <<"t", "u", "r", "n", " ", "o", "f", "f">>) @@
    ("enable" :>
        <<"e", "n", "a", "b", "l", "e">>) @@
    ("lights" :>
        <<"l", "i", "g", "h", "t", "s">>) @@
    ("notify" :>
        <<"n", "o", "t", "i", "f", "y">>) @@
    ("notification" :>
        <<"n", "o", "t", "i", "f", "i", "c", "a", "t", "i", "o", "n">>) @@
    ("Motion" :>
        <<"M", "o", "t", "i", "o", "n">>) @@
    ("detected" :>
        <<"d", "e", "t", "e", "c", "t", "e", "d">>) @@
    ("door" :>
        <<"d", "o", "o", "r">>) @@
    ("opened" :>
        <<"o", "p", "e", "n", "e", "d">>) @@
    ("closed" :>
        <<"c", "l", "o", "s", "e", "d">>) @@
    ("at sunset" :>
        <<"a", "t", " ", "s", "u", "n", "s", "e", "t">>) @@
    ("sunrise" :>
        <<"s", "u", "n", "r", "i", "s", "e">>) @@
    ("dawn" :>
        <<"d", "a", "w", "n">>) @@
    ("morning" :>
        <<"m", "o", "r", "n", "i", "n", "g">>) @@
    ("Evening" :>
        <<"E", "v", "e", "n", "i", "n", "g">>) @@
    ("midnight" :>
        <<"m", "i", "d", "n", "i", "g", "h", "t">>) @@
    ("noon" :>
        <<"n", "o", "o", "n">>) @@
    ("each weekday while we are away from the house" :>
        <<"e", "a", "c", "h", " ", "w", "e", "e", "k", "d", "a", "y",
          " ", "w", "h", "i", "l", "e", " ", "w", "e", " ", "a", "r", "e",
          " ", "a", "w", "a", "y", " ", "f", "r", "o", "m", " ", "t", "h",
          "e", " ", "h", "o", "u", "s", "e">>)

\* The keyword literals of the two rule sets.
kw_sunset == <<"s", "u", "n", "s", "e", "t">>
kw_dusk == <<"d", "u", "s", "k">>
kw_sunrise == <<"s", "u", "n", "r", "i", "s", "e">>
kw_dawn == <<"d", "a", "w", "n">>
kw_motion == <<"m", "o", "t", "i", "o", "n">>
kw_detected == <<"d", "e", "t", "e", "c", "t", "e", "d">>
kw_door == <<"d", "o", "o", "r">>
kw_open == <<"o", "p", "e", "n">>
kw_opened == <<"o", "p", "e", "n", "e", "d">>
kw_close == <<"c", "l", "o", "s", "e">>
kw_closed == <<"c", "l", "o", "s", "e", "d">>
kw_morning == <<"m", "o", "r", "n", "i", "n", "g">>
kw_evening == <<"e", "v", "e", "n", "i", "n", "g">>
kw_midnight == <<"m", "i", "d", "n", "i", "g", "h", "t">>
kw_noon == <<"n", "o", "o", "n">>
kw_light == <<"l", "i", "g", "h", "t">>
kw_on == <<"o", "n">>
kw_off == <<"o", "f", "f">>
kw_turn_on == <<"t", "u", "r", "n", " ", "o", "n">>
kw_turn_off == <<"t", "u", "r", "n", " ", "o", "f", "f">>
kw_enable == <<"e", "n", "a", "b", "l", "e">>
kw_disable == <<"d", "i", "s", "a", "b", "l", "e">>
kw_notification ==
    <<"n", "o", "t", "i", "f", "i", "c", "a", "t", "i", "o", "n">>
kw_notify == <<"n", "o", "t", "i", "f", "y">>
kw_alert == <<"a", "l", "e", "r", "t">>

\* The literal parts of the f-strings of the skeleton.
AliasPrefix ==
    <<"A", "I", " ", "G", "e", "n", "e", "r", "a", "t", "e", "d", ":", " ">>
Ellipsis == <<".", ".", ".">>
DescriptionPrefix ==
    <<"G", "e", "n", "e", "r", "a", "t", "e", "d", " ", "f", "r", "o", "m",
      ":", " ">>
MessagePrefix ==
    <<"A", "u", "t", "o", "m", "a", "t", "i", "o", "n", " ", "t", "r", "i",
      "g", "g", "e", "r", "e", "d", ":", " ">>
\* str.lower() on the ASCII letters.
UpperToLower ==
    ("A" :> "a") @@ ("B" :> "b") @@ ("C" :> "c") @@ ("D" :> "d") @@ ("E" :> "e") @@
    ("F" :> "f") @@ ("G" :> "g") @@ ("H" :> "h") @@ ("I" :> "i") @@ ("J" :> "j") @@
    ("K" :> "k") @@ ("L" :> "l") @@ ("M" :> "m") @@ ("N" :> "n") @@ ("O" :> "o") @@
    ("P" :> "p") @@ ("Q" :> "q") @@ ("R" :> "r") @@ ("S" :> "s") @@ ("T" :> "t") @@
    ("U" :> "u") @@ ("V" :> "v") @@ ("W" :> "w") @@ ("X" :> "x") @@ ("Y" :> "y") @@
    ("Z" :> "z")

\* ------------------------------------------------------- Python str model
\* description.lower()
lower(s) ==
    [i \in 1..Len(s) |->
        IF s[i] \in DOMAIN UpperToLower THEN UpperToLower[s[i]] ELSE s[i]]

\* `p in s` for two str: p occurs in s as a contiguous substring.
Contains(s, p) ==
    \E i \in 1..(Len(s) - Len(p) + 1) :
        \A j \in 1..Len(p) : s[i + j - 1] = p[j]

\* s[:n]
Prefix(s, n) ==
    IF Len(s) <= n THEN s ELSE SubSeq(s, 1, n)

\* any(word in s for word in ws)
AnyIn(s, ws) ==
    \E k \in 1..Len(ws) : Contains(s, ws[k])

\* The description string a sequence of phrases spells: the phrases joined
\* by single spaces.
RECURSIVE Text(_)
Text(ws) ==
    IF ws = <<>> THEN <<>>
    ELSE IF Len(ws) = 1 THEN Spell[ws[1]]
    ELSE Spell[ws[1]] \o <<" ">> \o Text(Tail(ws))

\* Index of a phrase in the vocabulary.
IndexOf(w) ==
    CHOOSE i \in 1..Len(Vocabulary) : Vocabulary[i] = w

\* ------------------------------------------------------------ automations
\* description[:50] in the alias
AliasLimit == 50

TimeTrigger(at) == [platform |-> "time", at |-> at]

SunTrigger(event, offset) ==
    [platform |-> "sun", event |-> event, offset |-> offset]

StateTrigger(entity_id, to) ==
    [platform |-> "state", entity_id |-> entity_id, to |-> to]

TargetAction(service, entity_id) ==
    [service |-> service, target |-> [entity_id |-> entity_id]]

DataAction(service, message) ==
    [service |-> service, data |-> [message |-> message]]

\* No automation has been returned yet.
NoAutomation ==
    [alias |-> <<>>, description |-> <<>>, trigger |-> <<>>,
     condition |-> <<>>, action |-> <<>>, mode |-> "none"]

\* A fallback template that shortens descriptions of 50 characters too.
get_fallback_template_off_by_one(description) ==
    [alias |-> IF Len(description) >= AliasLimit
               THEN AliasPrefix \o Prefix(description, AliasLimit) \o Ellipsis
               ELSE AliasPrefix \o description,
     description |-> DescriptionPrefix \o description,
     trigger |-> <<TimeTrigger("12:00:00")>>,
     condition |-> <<>>,
     action |-> <<DataAction("notify.notify", MessagePrefix \o description)>>,
     mode |-> "single"]

\* LLMManager._get_fallback_template
get_fallback_template(description) ==
    [alias |-> IF Len(description) > AliasLimit
               THEN AliasPrefix \o Prefix(description, AliasLimit) \o Ellipsis
               ELSE AliasPrefix \o description,
     description |-> DescriptionPrefix \o description,
     trigger |-> <<TimeTrigger("12:00:00")>>,
     condition |-> <<>>,
     action |-> <<DataAction("notify.notify", MessagePrefix \o description)>>,
     mode |-> "single"]

\* A time chain whose sunrise rule has the offset of the simple rule set.
smart_time_trigger_no_offset(automation0, desc_lower) ==
    IF AnyIn(desc_lower, <<kw_morning, kw_sunrise, kw_dawn>>)
    THEN [automation0 EXCEPT !.trigger = <<SunTrigger("sunrise", "0:00:00")>>]
    ELSE IF AnyIn(desc_lower, <<kw_evening, kw_sunset, kw_dusk>>)
    THEN [automation0 EXCEPT !.trigger = <<SunTrigger("sunset", "0:00:00")>>]
    ELSE IF AnyIn(desc_lower, <<kw_midnight>>)
    THEN [automation0 EXCEPT !.trigger = <<TimeTrigger("00:00:00")>>]
    ELSE IF AnyIn(desc_lower, <<kw_noon>>)
    THEN [automation0 EXCEPT !.trigger = <<TimeTrigger("12:00:00")>>]
    ELSE automation0

\* LLMManager._get_smart_template: the time triggers (first if/elif chain)
smart_time_trigger(automation0, desc_lower) ==
    IF AnyIn(desc_lower, <<kw_morning, kw_sunrise, kw_dawn>>)
    THEN [automation0 EXCEPT !.trigger = <<SunTrigger("sunrise", "0:30:00")>>]
    ELSE IF AnyIn(desc_lower, <<kw_evening, kw_sunset, kw_dusk>>)
    THEN [automation0 EXCEPT !.trigger = <<SunTrigger("sunset", "0:00:00")>>]
    ELSE IF AnyIn(desc_lower, <<kw_midnight>>)
    THEN [automation0 EXCEPT !.trigger = <<TimeTrigger("00:00:00")>>]
    ELSE IF AnyIn(desc_lower, <<kw_noon>>)
    THEN [automation0 EXCEPT !.trigger = <<TimeTrigger("12:00:00")>>]
    ELSE automation0

\* A sensor chain that adds its trigger to the list instead of replacing it.
smart_sensor_trigger_appending(automation0, desc_lower) ==
    IF Contains(desc_lower, kw_motion)
    THEN [automation0 EXCEPT !.trigger = Append(@,
            StateTrigger("binary_sensor.motion_sensor", "on"))]
    ELSE IF Contains(desc_lower, kw_door)
            /\ (Contains(desc_lower, kw_open) \/ Contains(desc_lower, kw_opened))
    THEN [automation0 EXCEPT !.trigger = Append(@,
            StateTrigger("binary_sensor.door_sensor", "on"))]
    ELSE IF Contains(desc_lower, kw_door)
            /\ (Contains(desc_lower, kw_close) \/ Contains(desc_lower, kw_closed))
    THEN [automation0 EXCEPT !.trigger = Append(@,
            StateTrigger("binary_sensor.door_sensor", "off"))]
    ELSE automation0

\* A sensor chain that tests the door rules before the motion rule.
smart_sensor_trigger_door_first(automation0, desc_lower) ==
    IF Contains(desc_lower, kw_door)
       /\ (Contains(desc_lower, kw_close) \/ Contains(desc_lower, kw_closed))
    THEN [automation0 EXCEPT !.trigger =
            <<StateTrigger("binary_sensor.door_sensor", "off")>>]
    ELSE IF Contains(desc_lower, kw_door)
            /\ (Contains(desc_lower, kw_open) \/ Contains(desc_lower, kw_opened))
    THEN [automation0 EXCEPT !.trigger =
            <<StateTrigger("binary_sensor.door_sensor", "on")>>]
    ELSE IF Contains(desc_lower, kw_motion)
    THEN [automation0 EXCEPT !.trigger =
            <<StateTrigger("binary_sensor.motion_sensor", "on")>>]
    ELSE automation0

\* LLMManager._get_smart_template: the sensor triggers (second chain)
smart_sensor_trigger(automation0, desc_lower) ==
    IF Contains(desc_lower, kw_motion)
    THEN [automation0 EXCEPT !.trigger =
            <<StateTrigger("binary_sensor.motion_sensor", "on")>>]
    ELSE IF Contains(desc_lower, kw_door)
            /\ (Contains(desc_lower, kw_open) \/ Contains(desc_lower, kw_opened))
    THEN [automation0 EXCEPT !.trigger =
            <<StateTrigger("binary_sensor.door_sensor", "on")>>]
    ELSE IF Contains(desc_lower, kw_door)
            /\ (Contains(desc_lower, kw_close) \/ Contains(desc_lower, kw_closed))
    THEN [automation0 EXCEPT !.trigger =
            <<StateTrigger("binary_sensor.door_sensor", "off")>>]
    ELSE automation0

\* An action chain that tests the light-off rule before the light-on rule.
smart_action_off_first(automation0, desc_lower, description) ==
    IF Contains(desc_lower, kw_light)
       /\ AnyIn(desc_lower, <<kw_off, kw_turn_off, kw_disable>>)
    THEN [automation0 EXCEPT !.action =
            <<TargetAction("light.turn_off", "light.living_room")>>]
    ELSE IF Contains(desc_lower, kw_light)
            /\ AnyIn(desc_lower, <<kw_on, kw_turn_on, kw_enable>>)
    THEN [automation0 EXCEPT !.action =
            <<TargetAction("light.turn_on", "light.living_room")>>]
    ELSE IF Contains(desc_lower, kw_notification)
            \/ Contains(desc_lower, kw_notify)
            \/ Contains(desc_lower, kw_alert)
    THEN [automation0 EXCEPT !.action =
            <<DataAction("notify.mobile_app", description)>>]
    ELSE automation0

\* LLMManager._get_smart_template: the actions (third chain)
smart_action(automation0, desc_lower, description) ==
    IF Contains(desc_lower, kw_light)
       /\ AnyIn(desc_lower, <<kw_on, kw_turn_on, kw_enable>>)
    THEN [automation0 EXCEPT !.action =
            <<TargetAction("light.turn_on", "light.living_room")>>]
    ELSE IF Contains(desc_lower, kw_light)
            /\ AnyIn(desc_lower, <<kw_off, kw_turn_off, kw_disable>>)
    THEN [automation0 EXCEPT !.action =
            <<TargetAction("light.turn_off", "light.living_room")>>]
    ELSE IF Contains(desc_lower, kw_notification)
            \/ Contains(desc_lower, kw_notify)
            \/ Contains(desc_lower, kw_alert)
    THEN [automation0 EXCEPT !.action =
            <<DataAction("notify.mobile_app", description)>>]
    ELSE automation0

\* LLMManager._get_smart_template: the three chains in order
smart_rules(automation0, desc_lower, description) ==
    LET a1 == smart_time_trigger(automation0, desc_lower)
        a2 == smart_sensor_trigger(a1, desc_lower)
    IN  smart_action(a2, desc_lower, description)

\* A template whose action rules start again from the basic template.
get_smart_template_action_only(description) ==
    LET desc_lower == lower(description)
        a0 == get_fallback_template(description)
    IN  smart_action(a0, desc_lower, description)

\* LLMManager._get_smart_template
get_smart_template(description) ==
    smart_rules(get_fallback_template(description), lower(description),
                description)

\* Where an exception is raised while a request runs the LLM path:
\*   "none"    nowhere;
\*   "caught"  inside the try block of LLMManager.generate_automation, so
\*             that its except clause returns the fallback template;
\*   "escaped" inside that try block and again in its except clause, so
\*             that the exception reaches create_automation_from_description.
Failures == {"none", "caught", "escaped"}

\* An except clause that runs the keyword template once more.
LLMManager_generate_automation_retrying(manager, description, fail) ==
    IF ~manager.initialized THEN get_fallback_template(description)
    ELSE get_smart_template(description)

\* LLMManager.generate_automation, for an exception that does not escape
LLMManager_generate_automation(manager, description, fail) ==
    IF ~manager.initialized THEN get_fallback_template(description)
    ELSE IF fail = "caught" THEN get_fallback_template(description)
    ELSE get_smart_template(description)

\* The singleton before get_llm_manager() was first called.
NoManager ==
    [created |-> FALSE, initialized |-> FALSE, has_llama_cpp |-> FALSE,
     instance |-> 0]

\* A get_llm_manager that constructs a manager at every call.
get_llm_manager_unshared(manager, llama_cpp_found) ==
    [created |-> TRUE, initialized |-> FALSE,
     has_llama_cpp |-> llama_cpp_found,
     instance |-> manager.instance + 1]

\* get_llm_manager: the singleton, constructed on first use
get_llm_manager(manager, llama_cpp_found) ==
    IF manager.created THEN manager
    ELSE [created |-> TRUE, initialized |-> FALSE,
          has_llama_cpp |-> llama_cpp_found,
          instance |-> manager.instance + 1]

\* A skeleton whose alias is the whole description, however long.
template_skeleton_untruncated(description) ==
    [alias |-> AliasPrefix \o description,
     description |-> DescriptionPrefix \o description,
     trigger |-> <<TimeTrigger("12:00:00")>>,
     condition |-> <<>>,
     action |-> <<DataAction("notify.notify", MessagePrefix \o description)>>,
     mode |-> "single"]

\* A skeleton that leaves the trigger list to the keyword rules.
template_skeleton_without_trigger(description) ==
    [alias |-> IF Len(description) > AliasLimit
               THEN AliasPrefix \o Prefix(description, AliasLimit) \o Ellipsis
               ELSE AliasPrefix \o description,
     description |-> DescriptionPrefix \o description,
     trigger |-> <<>>,
     condition |-> <<>>,
     action |-> <<DataAction("notify.notify", MessagePrefix \o description)>>,
     mode |-> "single"]

\* create_automation_from_description: the skeleton of the template path
template_skeleton(description) ==
    [alias |-> IF Len(description) > AliasLimit
               THEN AliasPrefix \o Prefix(description, AliasLimit) \o Ellipsis
               ELSE AliasPrefix \o description,
     description |-> DescriptionPrefix \o description,
     trigger |-> <<TimeTrigger("12:00:00")>>,
     condition |-> <<>>,
     action |-> <<DataAction("notify.notify", MessagePrefix \o description)>>,
     mode |-> "single"]

\* Simple rules that test the motion rule before the two sun rules.
simple_rules_motion_first(automation0, d) ==
    LET a1 == IF Contains(d, kw_motion) /\ Contains(d, kw_detected)
              THEN [automation0 EXCEPT !.trigger =
                      <<StateTrigger("binary_sensor.motion_sensor", "on")>>]
              ELSE automation0
        a2 == IF Contains(d, kw_sunset) \/ Contains(d, kw_dusk)
              THEN [a1 EXCEPT !.trigger = <<SunTrigger("sunset", "0:00:00")>>]
              ELSE a1
        a3 == IF Contains(d, kw_sunrise) \/ Contains(d, kw_dawn)
              THEN [a2 EXCEPT !.trigger = <<SunTrigger("sunrise", "0:00:00")>>]
              ELSE a2
        a4 == IF Contains(d, kw_light) /\ Contains(d, kw_on)
              THEN [a3 EXCEPT !.action =
                      <<TargetAction("light.turn_on", "light.living_room")>>]
              ELSE a3
    IN  IF Contains(d, kw_light) /\ Contains(d, kw_off)
        THEN [a4 EXCEPT !.action =
                <<TargetAction("light.turn_off", "light.living_room")>>]
        ELSE a4

\* create_automation_from_description: the simple rule-based enhancements,
\* five independent if statements applied in order; d is
\* description.lower()
simple_rules_on(automation0, d) ==
    LET a1 == IF Contains(d, kw_sunset) \/ Contains(d, kw_dusk)
              THEN [automation0 EXCEPT !.trigger =
                      <<SunTrigger("sunset", "0:00:00")>>]
              ELSE automation0
        a2 == IF Contains(d, kw_sunrise) \/ Contains(d, kw_dawn)
              THEN [a1 EXCEPT !.trigger = <<SunTrigger("sunrise", "0:00:00")>>]
              ELSE a1
        a3 == IF Contains(d, kw_motion) /\ Contains(d, kw_detected)
              THEN [a2 EXCEPT !.trigger =
                      <<StateTrigger("binary_sensor.motion_sensor", "on")>>]
              ELSE a2
        a4 == IF Contains(d, kw_light) /\ Contains(d, kw_on)
              THEN [a3 EXCEPT !.action =
                      <<TargetAction("light.turn_on", "light.living_room")>>]
              ELSE a3
    IN  IF Contains(d, kw_light) /\ Contains(d, kw_off)
        THEN [a4 EXCEPT !.action =
                <<TargetAction("light.turn_off", "light.living_room")>>]
        ELSE a4

\* create_automation_from_description: the template-based approach
simple_rules(automation0, description) ==
    simple_rules_on(automation0, lower(description))

\* A selector that tries the LLM manager whatever the flag says.
create_automation_ignoring_flag(description, flag, manager0, found, fail) ==
    LET manager == get_llm_manager(manager0, found)
    IN  IF fail = "escaped"
        THEN [automation |-> simple_rules(template_skeleton(description),
                                          description),
              manager |-> manager, llm_invoked |-> TRUE]
        ELSE [automation |-> LLMManager_generate_automation(
                                 manager, description, fail),
              manager |-> manager, llm_invoked |-> TRUE]

\* create_automation_from_description: the automation it returns, the
\* singleton after the call, and whether LLMManager.generate_automation ran.
\* manager0 is the singleton before the call; found is what a
\* newly constructed LLMManager would find.
create_automation_from_description(description, flag, manager0, found, fail) ==
    IF flag
    THEN LET manager == get_llm_manager(manager0, found)
         IN  IF fail = "escaped"
             THEN [automation |-> simple_rules(template_skeleton(description),
                                               description),
                   manager |-> manager, llm_invoked |-> TRUE]
             ELSE [automation |-> LLMManager_generate_automation(
                                      manager, description, fail),
                   manager |-> manager, llm_invoked |-> TRUE]
    ELSE [automation |-> simple_rules(template_skeleton(description),
                                      description),
          manager |-> manager0, llm_invoked |-> FALSE]

\* An exception that reaches create_automation_from_description clears the
\* flag.
flag_lost_on_exception(flag, fail) ==
    flag /\ fail # "escaped"

\* A fallback that switches the process to template-only for good.
flag_cleared_by_fallback(flag, fail) ==
    flag /\ fail = "none"

\* create_automation_from_description has no `global llm_initialized`
\* statement: the flag after a request is the flag before it.
flag_after_request(flag, fail) ==
    flag

\* ------------------------------------------------------------- start-up
NoResponse == [status |-> 0, error |-> "none"]

\* No gateway handler has answered the current request.
NoGatewayResponse ==
    [operation |-> "none", status |-> 0, error |-> FALSE,
     success |-> "absent", filename |-> <<>>]

\* No gateway request is being handled.
NoRequest == [operation |-> "none", body |-> "missing", alias |-> <<>>]

\* Python's None, and a str value, for HA_TOKEN.
None == [is_none |-> TRUE, value |-> <<>>]

Some(value) == [is_none |-> FALSE, value |-> value]

\* The values of USE_LLM in the environment (the default is 'true').
UseLlmValues == {<<"T", "r", "u", "e">>, <<"f", "a", "l", "s", "e">>}

\* The values of HA_TOKEN in the environment: unset or empty, blank, a token.
TokenValues == {<<>>, <<" ", " ">>, <<"e", "y", "J">>}

kw_true == <<"t", "r", "u", "e">>

\* os.environ.get('USE_LLM', 'true').lower() == 'true'
use_llm(env) == lower(env.USE_LLM) = kw_true

Whitespace == {" ", "\t", "\n"}

\* s.strip()
strip(s) ==
    LET kept == {i \in 1..Len(s) : s[i] \notin Whitespace}
    IN  IF kept = {} THEN <<>>
        ELSE SubSeq(s, CHOOSE i \in kept : \A j \in kept : i <= j,
                       CHOOSE i \in kept : \A j \in kept : j <= i)

\* The process starts in main() with this environment.
Start(tokens) ==
    /\ pc = "check_dependencies"
    /\ llm_initialized = FALSE
    /\ llm_manager = NoManager
    /\ words = <<>>
    /\ automation = NoAutomation
    /\ response = NoResponse
    /\ llm_invoked = FALSE
    /\ failure = "none"
    /\ fell_back = FALSE
    /\ environ \in [USE_LLM : UseLlmValues, HA_TOKEN : tokens]
    /\ steps = <<>>
    /\ dependencies = "unchecked"
    /\ HA_TOKEN = None
    /\ request = NoRequest
    /\ outbound = <<>>
    /\ ha_response = NoGatewayResponse
    /\ call = "first"
    /\ yaml_text = None
    /\ parsed = None

\* The add-on started without a Home Assistant token.
Init == Start({<<>>})

\* The packages DependencyManager requires, and how each is found: installed,
\* missing and installed by pip, missing and still not importable after pip
\* succeeded, missing and not installed by pip.
RequiredDependencies == {"flask", "pyyaml", "requests"}

PackageStates == {"installed", "installable", "unimportable", "unavailable"}

\* DependencyManager.run_dependency_check
run_dependency_check(packages, raises) ==
    LET missing == {p \in RequiredDependencies : packages[p] # "installed"}
    IN  IF raises THEN FALSE
        ELSE IF missing # {} /\ \E p \in missing : packages[p] = "unavailable"
        THEN FALSE
        ELSE \A p \in RequiredDependencies :
                 packages[p] \in {"installed", "installable"}

\* A main that goes on to the LLM whatever the dependency check returned.
main_after_dependency_check_unchecked(ok) ==
    "initialize_llm"

\* main: `if not check_and_install_dependencies(): return 1`
main_after_dependency_check(ok) ==
    IF ok THEN "initialize_llm" ELSE "exit_1"

\* main: check_and_install_dependencies(); a failed check returns 1
check_and_install_dependencies ==
    /\ pc = "check_dependencies"
    /\ \E file_exists, raises \in BOOLEAN,
          packages \in [RequiredDependencies -> PackageStates] :
        LET ok == file_exists /\ run_dependency_check(packages, raises)
        IN  /\ dependencies' = IF ok THEN "ok" ELSE "failed"
            /\ pc' = main_after_dependency_check(ok)
    /\ steps' = Append(steps, "check_and_install_dependencies")
    /\ UNCHANGED <<llm_initialized, llm_manager, words, automation, response,
                   llm_invoked, failure, fell_back, environ, HA_TOKEN,
                   request, outbound, ha_response, call, yaml_text, parsed>>

\* LLMManager.initialize: the value it returns and leaves in initialized
LLMManager_initialize(manager, io_error) ==
    manager.has_llama_cpp /\ ~io_error

\* main: initialize_llm() when USE_LLM is 'true'
initialize_llm ==
    /\ pc = "initialize_llm"
    /\ use_llm(environ)
    /\ \E file_exists, llama_cpp_found, io_error \in BOOLEAN :
        IF file_exists
        THEN LET manager == get_llm_manager(llm_manager, llama_cpp_found)
                 ok      == LLMManager_initialize(manager, io_error)
             IN  /\ llm_manager' = [manager EXCEPT !.initialized = ok]
                 /\ llm_initialized' = ok
        ELSE UNCHANGED <<llm_initialized, llm_manager>>
    /\ pc' = "run_flask_app"
    /\ steps' = Append(steps, "initialize_llm")
    /\ UNCHANGED <<words, automation, response, llm_invoked, failure,
                   fell_back, environ, dependencies, HA_TOKEN, request,
                   outbound, ha_response, call, yaml_text, parsed>>

\* main: "LLM disabled by configuration." when USE_LLM is not 'true'
llm_disabled ==
    /\ pc = "initialize_llm"
    /\ ~use_llm(environ)
    /\ pc' = "run_flask_app"
    /\ UNCHANGED <<llm_initialized, llm_manager, words, automation, response,
                   llm_invoked, failure, fell_back, environ, steps,
                   dependencies, HA_TOKEN, request, outbound, ha_response,
                   call, yaml_text, parsed>>

\* A start that takes only the empty HA_TOKEN for a missing one.
normalised_token_unstripped(token) ==
    IF token = <<>> THEN None ELSE Some(token)

\* run_flask_app: an empty or blank HA_TOKEN becomes None
normalised_token(token) ==
    IF token = <<>> \/ strip(token) = <<>> THEN None ELSE Some(token)

\* run_flask_app: the server starts, or the start fails and main returns 1
run_flask_app ==
    /\ pc = "run_flask_app"
    /\ \E ok \in BOOLEAN :
        pc' = IF ok THEN "serving" ELSE "exit_1"
    /\ HA_TOKEN' = normalised_token(environ.HA_TOKEN)
    /\ steps' = Append(steps, "run_flask_app")
    /\ UNCHANGED <<llm_initialized, llm_manager, words, automation, response,
                   llm_invoked, failure, fell_back, environ, dependencies,
                   request, outbound, ha_response, call, yaml_text, parsed>>

\* What a request to POST /api/generate leaves alone.
outside_generate ==
    <<environ, steps, dependencies, HA_TOKEN, request, outbound,
      ha_response, yaml_text, parsed>>

\* ------------------------------------------------------------------- YAML
\* yaml.dump(automation, default_flow_style=False, sort_keys=False) and the
\* parse of its text, for the values an automation holds: str scalars of
\* printable characters without line breaks, lists of dicts, dicts.

\* The str literals of the automation dicts, keys and values, spelled.
Chars ==
    ("alias" :> <<"a", "l", "i", "a", "s">>) @@
    ("description" :>
        <<"d", "e", "s", "c", "r", "i", "p", "t", "i", "o", "n">>) @@
    ("trigger" :> <<"t", "r", "i", "g", "g", "e", "r">>) @@
    ("condition" :> <<"c", "o", "n", "d", "i", "t", "i", "o", "n">>) @@
    ("action" :> <<"a", "c", "t", "i", "o", "n">>) @@
    ("mode" :> <<"m", "o", "d", "e">>) @@
    ("platform" :> <<"p", "l", "a", "t", "f", "o", "r", "m">>) @@
    ("at" :> <<"a", "t">>) @@
    ("event" :> <<"e", "v", "e", "n", "t">>) @@
    ("offset" :> <<"o", "f", "f", "s", "e", "t">>) @@
    ("entity_id" :> <<"e", "n", "t", "i", "t", "y", "_", "i", "d">>) @@
    ("to" :> <<"t", "o">>) @@
    ("service" :> <<"s", "e", "r", "v", "i", "c", "e">>) @@
    ("target" :> <<"t", "a", "r", "g", "e", "t">>) @@
    ("data" :> <<"d", "a", "t", "a">>) @@
    ("message" :> <<"m", "e", "s", "s", "a", "g", "e">>) @@
    ("time" :> <<"t", "i", "m", "e">>) @@
    ("sun" :> <<"s", "u", "n">>) @@
    ("state" :> <<"s", "t", "a", "t", "e">>) @@
    ("12:00:00" :> <<"1", "2", ":", "0", "0", ":", "0", "0">>) @@
    ("00:00:00" :> <<"0", "0", ":", "0", "0", ":", "0", "0">>) @@
    ("sunrise" :> <<"s", "u", "n", "r", "i", "s", "e">>) @@
    ("sunset" :> <<"s", "u", "n", "s", "e", "t">>) @@
    ("0:00:00" :> <<"0", ":", "0", "0", ":", "0", "0">>) @@
    ("0:30:00" :> <<"0", ":", "3", "0", ":", "0", "0">>) @@
    ("binary_sensor.motion_sensor" :>
        <<"b", "i", "n", "a", "r", "y", "_", "s", "e", "n", "s", "o", "r",
          ".", "m", "o", "t", "i", "o", "n", "_", "s", "e", "n", "s", "o",
          "r">>) @@
    ("binary_sensor.door_sensor" :>
        <<"b", "i", "n", "a", "r", "y", "_", "s", "e", "n", "s", "o", "r",
          ".", "d", "o", "o", "r", "_", "s", "e", "n", "s", "o", "r">>) @@
    ("light.living_room" :>
        <<"l", "i", "g", "h", "t", ".", "l", "i", "v", "i", "n", "g", "_",
          "r", "o", "o", "m">>) @@
    ("on" :> <<"o", "n">>) @@
    ("off" :> <<"o", "f", "f">>) @@
    ("light.turn_on" :>
        <<"l", "i", "g", "h", "t", ".", "t", "u", "r", "n", "_", "o", "n">>) @@
    ("light.turn_off" :>
        <<"l", "i", "g", "h", "t", ".", "t", "u", "r", "n", "_", "o", "f",
          "f">>) @@
    ("notify.mobile_app" :>
        <<"n", "o", "t", "i", "f", "y", ".", "m", "o", "b", "i", "l", "e",
          "_", "a", "p", "p">>) @@
    ("notify.notify" :>
        <<"n", "o", "t", "i", "f", "y", ".", "n", "o", "t", "i", "f", "y">>) @@
    ("single" :> <<"s", "i", "n", "g", "l", "e">>)

\* ' ' * n
spaces(n) == [i \in 1..n |-> " "]

\* all(c in chars for c in s)
AllIn(s, chars) == \A i \in 1..Len(s) : s[i] \in chars

\* A value of a document. A dict keeps its entries in insertion order; a
\* scalar a loader resolves to another type than str has that type as kind.
ScalarNode(kind, value) == [kind |-> kind, value |-> value, items |-> <<>>]

StrNode(value) == ScalarNode("str", value)

ListNode(items) == [kind |-> "list", value |-> <<>>, items |-> items]

DictNode(items) == [kind |-> "dict", value |-> <<>>, items |-> items]

Entry(key, node) == [key |-> StrNode(Chars[key]), node |-> node]

\* The dict of a trigger, its keys in the order of the dict literal.
trigger_dict(t) ==
    IF "at" \in DOMAIN t
    THEN DictNode(<<Entry("platform", StrNode(Chars[t.platform])),
                    Entry("at", StrNode(Chars[t.at]))>>)
    ELSE IF "event" \in DOMAIN t
    THEN DictNode(<<Entry("platform", StrNode(Chars[t.platform])),
                    Entry("event", StrNode(Chars[t.event])),
                    Entry("offset", StrNode(Chars[t.offset]))>>)
    ELSE DictNode(<<Entry("platform", StrNode(Chars[t.platform])),
                    Entry("entity_id", StrNode(Chars[t.entity_id])),
                    Entry("to", StrNode(Chars[t.to]))>>)

\* The dict of an action, its keys in the order of the dict literal.
action_dict(a) ==
    IF "target" \in DOMAIN a
    THEN DictNode(<<Entry("service", StrNode(Chars[a.service])),
                    Entry("target", DictNode(<<
                        Entry("entity_id",
                              StrNode(Chars[a.target.entity_id]))>>))>>)
    ELSE DictNode(<<Entry("service", StrNode(Chars[a.service])),
                    Entry("data", DictNode(<<
                        Entry("message", StrNode(a.data.message))>>))>>)

\* The automation dict: the keys in the order of the dict literal of both
\* generators; the rules assign to keys that exist, which keeps the order.
automation_dict(a) ==
    DictNode(<<
        Entry("alias", StrNode(a.alias)),
        Entry("description", StrNode(a.description)),
        Entry("trigger",
              ListNode([i \in 1..Len(a.trigger) |-> trigger_dict(a.trigger[i])])),
        Entry("condition", ListNode(a.condition)),
        Entry("action",
              ListNode([i \in 1..Len(a.action) |-> action_dict(a.action[i])])),
        Entry("mode", StrNode(Chars[a.mode]))>>)

\* ---- the implicit resolver: the type a plain scalar is read as
Digit == {"0", "1", "2", "3", "4", "5", "6", "7", "8", "9"}

HexDigit ==
    Digit \cup {"a", "b", "c", "d", "e", "f", "A", "B", "C", "D", "E", "F"}

BoolWords ==
    {<<"y", "e", "s">>, <<"Y", "e", "s">>, <<"Y", "E", "S">>,
     <<"n", "o">>, <<"N", "o">>, <<"N", "O">>,
     <<"t", "r", "u", "e">>, <<"T", "r", "u", "e">>, <<"T", "R", "U", "E">>,
     <<"f", "a", "l", "s", "e">>, <<"F", "a", "l", "s", "e">>,
     <<"F", "A", "L", "S", "E">>,
     <<"o", "n">>, <<"O", "n">>, <<"O", "N">>,
     <<"o", "f", "f">>, <<"O", "f", "f">>, <<"O", "F", "F">>}

NullWords ==
    {<<"~">>, <<"n", "u", "l", "l">>, <<"N", "u", "l", "l">>,
     <<"N", "U", "L", "L">>, <<>>}

InfWords ==
    {<<".", "i", "n", "f">>, <<".", "I", "n", "f">>, <<".", "I", "N", "F">>}

NanWords ==
    {<<".", "n", "a", "n">>, <<".", "N", "a", "N">>, <<".", "N", "A", "N">>}

\* s without a leading sign
unsigned(s) ==
    IF s # <<>> /\ s[1] \in {"-", "+"} THEN Tail(s) ELSE s

\* s.split(sep)
RECURSIVE split(_, _)
split(s, sep) ==
    IF \A i \in 1..Len(s) : s[i] # sep THEN <<s>>
    ELSE LET i == CHOOSE i \in 1..Len(s) :
                      s[i] = sep /\ \A j \in 1..(i - 1) : s[j] # sep
         IN  <<SubSeq(s, 1, i - 1)>> \o split(SubSeq(s, i + 1, Len(s)), sep)

\* [0-9][0-9_]* when zero is TRUE, [1-9][0-9_]* otherwise
digits_head(p, zero) ==
    /\ p # <<>>
    /\ p[1] \in (IF zero THEN Digit ELSE Digit \ {"0"})
    /\ AllIn(p, Digit \cup {"_"})

\* (?::[0-5]?[0-9])+ for the parts after the first of a ':'-split
sexagesimal_tail(parts) ==
    /\ Len(parts) >= 2
    /\ \A k \in 2..Len(parts) :
           /\ Len(parts[k]) \in {1, 2}
           /\ AllIn(parts[k], Digit)
           /\ Len(parts[k]) = 2 => parts[k][1] \in {"0", "1", "2", "3", "4", "5"}

\* The regular expression of tag:yaml.org,2002:int
is_int(s) ==
    LET b == unsigned(s)
    IN  \/ /\ Len(b) >= 3 /\ b[1] = "0" /\ b[2] = "b"
           /\ AllIn(SubSeq(b, 3, Len(b)), {"0", "1", "_"})
        \/ /\ Len(b) >= 2 /\ b[1] = "0"
           /\ AllIn(Tail(b), {"0", "1", "2", "3", "4", "5", "6", "7", "_"})
        \/ b = <<"0">>
        \/ digits_head(b, FALSE)
        \/ /\ Len(b) >= 3 /\ b[1] = "0" /\ b[2] = "x"
           /\ AllIn(SubSeq(b, 3, Len(b)), HexDigit \cup {"_"})
        \/ LET parts == split(b, ":")
           IN  digits_head(parts[1], FALSE) /\ sexagesimal_tail(parts)

\* The regular expression of tag:yaml.org,2002:float, without its exponent
\* forms (they need a sign character after e or E).
is_float(s) ==
    LET b == unsigned(s)
        halves == split(b, ".")
    IN  \/ /\ Len(halves) = 2
           /\ digits_head(halves[1], TRUE)
           /\ AllIn(halves[2], Digit \cup {"_"})
        \/ /\ Len(s) >= 2 /\ s[1] = "."
           /\ digits_head(Tail(s), TRUE)
        \/ /\ Len(halves) = 2
           /\ LET parts == split(halves[1], ":")
              IN  digits_head(parts[1], TRUE) /\ sexagesimal_tail(parts)
           /\ AllIn(halves[2], Digit \cup {"_"})
        \/ b \in InfWords
        \/ s \in NanWords

\* The date form of tag:yaml.org,2002:timestamp: dddd-dd-dd. The forms with
\* a time of day are left out (they start with a date as well).
is_date(s) ==
    /\ Len(s) = 10
    /\ s[5] = "-" /\ s[8] = "-"
    /\ \A i \in {1, 2, 3, 4, 6, 7, 9, 10} : s[i] \in Digit

\* Resolver.resolve for a plain scalar: the implicit resolvers in the order
\* they are registered.
resolve(s) ==
    IF s \in BoolWords THEN "bool"
    ELSE IF is_float(s) THEN "float"
    ELSE IF is_int(s) THEN "int"
    ELSE IF s = <<"<", "<">> THEN "merge"
    ELSE IF s \in NullWords THEN "null"
    ELSE IF is_date(s) THEN "timestamp"
    ELSE IF s = <<"=">> THEN "value"
    ELSE "str"

\* ---- the emitter, block style
\* Emitter.best_width: a scalar is broken at a space past this column.
best_width == 80

\* The characters that start a plain scalar in no context (the double
\* quote and the backquote, which no string here holds, are left out).
LeadingIndicators ==
    {"#", ",", "[", "]", "{", "}", "&", "*", "!", "|", ">", "'", "%", "@"}

\* analyze_scalar: followed_by_whitespace at position i
followed_by_whitespace(s, i) ==
    i + 1 > Len(s) \/ s[i + 1] \in Whitespace

\* analyze_scalar: allow_block_plain
allow_block_plain(s) ==
    /\ s # <<>>
    /\ s[1] # " " /\ s[Len(s)] # " "
    /\ s[1] \notin LeadingIndicators
    /\ ~(s[1] \in {"?", ":", "-"} /\ followed_by_whitespace(s, 1))
    /\ \A i \in 1..Len(s) :
           /\ ~(s[i] = ":" /\ followed_by_whitespace(s, i))
           /\ ~(s[i] = "#" /\ i > 1 /\ s[i - 1] \in Whitespace)

\* choose_scalar_style for a str: plain when the resolver reads the text as
\* a str (event.implicit[0]) and the analysis allows it, single-quoted
\* otherwise.
choose_scalar_style(s) ==
    IF resolve(s) = "str" /\ allow_block_plain(s) THEN "plain" ELSE "single"

\* write_single_quoted: a quote is written twice.
RECURSIVE escape_quotes(_)
escape_quotes(s) ==
    IF \A i \in 1..Len(s) : s[i] # "'" THEN s
    ELSE LET i == CHOOSE i \in 1..Len(s) :
                      s[i] = "'" /\ \A j \in 1..(i - 1) : s[j] # "'"
         IN  SubSeq(s, 1, i) \o <<"'">>
             \o escape_quotes(SubSeq(s, i + 1, Len(s)))

\* The first position from i on where the emitter may break the text: a
\* single space inside the text; Len(text) + 1 when there is none.
next_break(text, i, split_lines) ==
    LET breaks == {j \in i..Len(text) :
                      /\ split_lines
                      /\ text[j] = " "
                      /\ 1 < j /\ j < Len(text)
                      /\ text[j - 1] # " " /\ text[j + 1] # " "}
    IN  IF breaks = {} THEN Len(text) + 1
        ELSE CHOOSE j \in breaks : \A k \in breaks : j <= k

RECURSIVE write_text(_, _, _, _, _, _)
RECURSIVE write_break(_, _, _, _, _, _)
\* write_plain and write_single_quoted at a space j where the text may be
\* broken, or at the end of the text, `line` being the current line: the
\* space is replaced by a line break and the indentation when the column has
\* passed best_width.
write_break(text, j, line, indent, style, split_lines) ==
    IF j > Len(text)
    THEN <<IF style = "single" THEN Append(line, "'") ELSE line>>
    ELSE IF Len(line) > best_width
    THEN <<line>> \o write_text(text, j + 1, spaces(indent), indent, style,
                                split_lines)
    ELSE write_text(text, j + 1, Append(line, " "), indent, style, split_lines)

\* The characters of text from position i to position j - 1, written after
\* `line`, and what follows them.
write_chunk(text, i, j, line, indent, style, split_lines) ==
    write_break(text, j,
                line \o (IF style = "single"
                         THEN escape_quotes(SubSeq(text, i, j - 1))
                         ELSE SubSeq(text, i, j - 1)),
                indent, style, split_lines)

\* write_plain and write_single_quoted: the lines of the characters of text
\* from position i on, written after `line`.
write_text(text, i, line, indent, style, split_lines) ==
    write_chunk(text, i, next_break(text, i, split_lines), line, indent, style,
                split_lines)

\* process_scalar for a simple key: the key on one line
write_key(key) ==
    LET style == choose_scalar_style(key)
    IN  write_text(key, 1, IF style = "single" THEN <<"'">> ELSE <<>>, 0,
                   style, FALSE)[1]

\* process_scalar for a value: the lines of the scalar, the first one
\* continuing `head`; expect_scalar has raised the indentation to indent.
write_scalar(head, text, indent) ==
    LET style == choose_scalar_style(text)
    IN  write_text(text, 1,
                   head \o (IF style = "single" THEN <<" ", "'">> ELSE <<" ">>),
                   indent, style, TRUE)

\* "- " written over the indentation of the first line of a list element,
\* the element being indented by two more than the list.
block_sequence_item(lines, indent) ==
    <<spaces(indent) \o <<"-", " ">>
        \o SubSeq(lines[1], indent + 3, Len(lines[1]))>> \o Tail(lines)

RECURSIVE write_node(_, _, _)
RECURSIVE write_mapping(_, _)
RECURSIVE write_sequence(_, _)
\* expect_node for the value of a key of a mapping at indentation indent,
\* `head` being the line with the key and its colon.
write_node(head, node, indent) ==
    IF node.kind = "list"
    THEN IF node.items = <<>>
         THEN <<head \o <<" ", "[", "]">>>>
         ELSE <<head>> \o write_sequence(node.items, indent)
    ELSE IF node.kind = "dict"
    THEN IF node.items = <<>>
         THEN <<head \o <<" ", "{", "}">>>>
         ELSE <<head>> \o write_mapping(node.items, indent + 2)
    ELSE write_scalar(head, node.value, indent + 2)

\* expect_block_mapping: the entries in the order of the dict (sort_keys is
\* False), each key at the indentation of the mapping.
write_mapping(items, indent) ==
    IF items = <<>> THEN <<>>
    ELSE write_node(spaces(indent) \o write_key(items[1].key.value) \o <<":">>,
                    items[1].node, indent)
         \o write_mapping(Tail(items), indent)

\* expect_block_sequence inside a mapping: the sequence is not indented
\* under its key; its elements are dicts.
write_sequence(items, indent) ==
    IF items = <<>> THEN <<>>
    ELSE block_sequence_item(write_mapping(items[1].items, indent + 2), indent)
         \o write_sequence(Tail(items), indent)

\* A dump that writes the keys of the document from the last to the first.
dump_keys_reversed(node) ==
    write_mapping([i \in 1..Len(node.items) |->
                      node.items[Len(node.items) + 1 - i]], 0)

\* yaml.dump(automation, default_flow_style=False, sort_keys=False): the
\* lines of the text
dump(node) == write_mapping(node.items, 0)

\* ---- the loader, for block style text
\* What a text that is no document loads as.
ParseError == ScalarNode("error", <<>>)

\* The column of the first character of a line that is no space.
indentation(line) ==
    IF AllIn(line, {" "}) THEN Len(line)
    ELSE (CHOOSE i \in 1..Len(line) :
              line[i] # " " /\ \A j \in 1..(i - 1) : line[j] = " ") - 1

\* s.lstrip(' ')
lstrip(s) == SubSeq(s, indentation(s) + 1, Len(s))

\* s.rstrip(' ')
rstrip(s) ==
    IF AllIn(s, {" "}) THEN <<>>
    ELSE SubSeq(s, 1, CHOOSE i \in 1..Len(s) :
                          s[i] # " " /\ \A j \in (i + 1)..Len(s) : s[j] = " ")

\* The line has the block entry indicator "- " at column n.
is_block_entry(line, n) ==
    /\ indentation(line) = n
    /\ Len(line) > n
    /\ line[n + 1] = "-"
    /\ followed_by_whitespace(line, n + 1)

\* The position of the ':' that ends a simple key in s: the first one
\* followed by white space; 0 when there is none.
key_end(s) ==
    LET ends == {i \in 1..Len(s) : s[i] = ":" /\ followed_by_whitespace(s, i)}
    IN  IF ends = {} THEN 0 ELSE CHOOSE i \in ends : \A j \in ends : i <= j

\* The number of lines of the first entry of a block at column n: its first
\* line and the lines that follow it with a deeper indentation, or, for an
\* entry of a mapping, with the elements of a sequence at column n.
entry_size(lines, n, in_mapping) ==
    LET stops == {i \in 2..Len(lines) :
                      ~ \/ indentation(lines[i]) > n
                        \/ in_mapping /\ is_block_entry(lines[i], n)}
    IN  IF stops = {} THEN Len(lines)
        ELSE (CHOOSE i \in stops : \A j \in stops : i <= j) - 1

\* Line folding: the lines of a scalar joined by one space each, the white
\* space around a line break dropped.
RECURSIVE unfold(_)
unfold(lines) ==
    IF Len(lines) = 1 THEN lines[1]
    ELSE rstrip(lines[1]) \o <<" ">>
         \o unfold(<<lstrip(lines[2])>> \o SubSeq(lines, 3, Len(lines)))

\* The content of a single-quoted scalar from position i of text on: ''
\* is a quote, a single ' ends the scalar and has to end the text.
RECURSIVE unquote(_, _, _)
unquote(text, i, value) ==
    LET quotes == {j \in i..Len(text) : text[j] = "'"}
    IN  IF quotes = {} THEN ParseError
        ELSE LET j == CHOOSE j \in quotes : \A k \in quotes : j <= k
             IN  IF j < Len(text) /\ text[j + 1] = "'"
                 THEN unquote(text, j + 2, value \o SubSeq(text, i, j))
                 ELSE IF j = Len(text)
                 THEN StrNode(value \o SubSeq(text, i, j - 1))
                 ELSE ParseError

\* A scalar: single-quoted, or plain and of the type the resolver gives
\* its text. A ": " inside a plain scalar is a mapping value out of place;
\* a text that starts with an indicator is no str scalar, which ParseError
\* stands for as well.
parse_scalar(lines) ==
    LET text == rstrip(unfold(lines))
    IN  IF text = <<>> THEN ScalarNode("null", <<>>)
        ELSE IF text[1] = "'" THEN unquote(text, 2, <<>>)
        ELSE IF \/ text[1] \in LeadingIndicators
                \/ text[1] \in {"-", "?"} /\ followed_by_whitespace(text, 1)
                \/ key_end(text) # 0
        THEN ParseError
        ELSE ScalarNode(resolve(text), text)

RECURSIVE parse_mapping(_, _)
RECURSIVE parse_sequence(_, _)
RECURSIVE parse_value(_, _)
RECURSIVE parse_block(_)
\* The value of a key of a mapping: `rest` follows the colon on the line
\* of the key, `following` are the other lines of the entry.
parse_value(rest, following) ==
    IF rest = <<>> /\ following # <<>>
    THEN IF is_block_entry(following[1], indentation(following[1]))
         THEN ListNode(parse_sequence(following, indentation(following[1])))
         ELSE DictNode(parse_mapping(following, indentation(following[1])))
    ELSE IF rest = <<"[", "]">> /\ following = <<>> THEN ListNode(<<>>)
    ELSE IF rest = <<"{", "}">> /\ following = <<>> THEN DictNode(<<>>)
    ELSE parse_scalar(<<rest>> \o following)

\* A block mapping at column n: the entries in the order of the text.
parse_mapping(lines, n) ==
    IF lines = <<>> THEN <<>>
    ELSE LET size == entry_size(lines, n, TRUE)
             first == SubSeq(lines[1], n + 1, Len(lines[1]))
             colon == key_end(first)
         IN  IF indentation(lines[1]) # n \/ colon = 0
             THEN <<[key |-> ParseError, node |-> ParseError]>>
             ELSE <<[key |-> parse_scalar(<<SubSeq(first, 1, colon - 1)>>),
                     node |-> parse_value(
                                 lstrip(SubSeq(first, colon + 1, Len(first))),
                                 SubSeq(lines, 2, size))]>>
                  \o parse_mapping(SubSeq(lines, size + 1, Len(lines)), n)

\* A block sequence at column n: each element is the block that starts
\* after its "- ".
parse_sequence(lines, n) ==
    IF lines = <<>> THEN <<>>
    ELSE LET size == entry_size(lines, n, FALSE)
             first == spaces(n + 1) \o SubSeq(lines[1], n + 2, Len(lines[1]))
         IN  IF ~is_block_entry(lines[1], n) THEN <<ParseError>>
             ELSE <<parse_block(<<first>> \o SubSeq(lines, 2, size))>>
                  \o parse_sequence(SubSeq(lines, size + 1, Len(lines)), n)

\* A block: a mapping when its first line starts with a simple key, a
\* scalar otherwise.
parse_block(lines) ==
    LET first == lstrip(lines[1])
    IN  IF first # <<>> /\ first[1] # "'" /\ key_end(first) # 0
        THEN DictNode(parse_mapping(lines, indentation(lines[1])))
        ELSE parse_scalar(<<first>> \o Tail(lines))

\* yaml.safe_load of the text: the document, a block mapping at column 0
safe_load(lines) ==
    IF lines = <<>> THEN ScalarNode("null", <<>>)
    ELSE parse_block(lines)

\* -------------------------------------------------------------- requests
\* The failures that can happen in a request: the LLM path only runs, and
\* only fails, when the flag is set.
PossibleFailures ==
    IF llm_initialized THEN Failures ELSE {"none"}

\* The client writes the next phrase of the description of its request.
Compose ==
    /\ pc = "serving"
    /\ response = NoResponse
    /\ automation = NoAutomation
    /\ Len(words) < MaxWords
    /\ LET last == IF words = <<>> THEN 0 ELSE IndexOf(words[Len(words)])
       IN  \E i \in (last + 1)..Len(Vocabulary) :
               words' = Append(words, Vocabulary[i])
    /\ UNCHANGED <<pc, llm_initialized, llm_manager, automation, response,
                   llm_invoked, failure, fell_back>>
    /\ UNCHANGED outside_generate
    /\ UNCHANGED call

\* What the constructor of LLMManager finds when a request constructs the
\* singleton; a request that finds the singleton constructed does not look.
LlamaCppFound ==
    IF llm_initialized /\ ~llm_manager.created THEN BOOLEAN ELSE {FALSE}

\* The call of create_automation_from_description with its effects.
Generate(description, fail) ==
    \E found \in LlamaCppFound :
        LET r == create_automation_from_description(
                     description, llm_initialized, llm_manager, found, fail)
        IN  /\ automation' = r.automation
            /\ llm_manager' = r.manager
            /\ llm_invoked' = r.llm_invoked
            /\ failure' = fail
            /\ fell_back' = (fell_back \/ fail # "none")
            /\ llm_initialized' = flag_after_request(llm_initialized, fail)

\* The bodies of a generate request that carry no description: no JSON
\* body at all, the empty object, an object without the key, the empty string.
BodiesWithoutDescription ==
    {"missing", "empty_object", "no_description", "empty_description"}

\* generate_automation: the answer to a request without description.
\* request.get_json() returns None for a missing body or raises, depending
\* on the installed Flask; the handler's except turns the raise into a 500.
rejection(body, get_json_raises) ==
    IF body = "missing" /\ get_json_raises
    THEN [status |-> 500, error |-> "str(e)"]
    ELSE IF body \in {"missing", "empty_object"}
    THEN [status |-> 400, error |-> "No JSON data provided"]
    ELSE [status |-> 400, error |-> "No description provided"]

\* A handler that passes whatever description it finds to the generators.
generate_automation_unvalidated ==
    /\ pc = "serving"
    /\ response = NoResponse
    /\ \E fail \in PossibleFailures : Generate(Text(words), fail)
    /\ response' = [status |-> 200, error |-> "none"]
    /\ UNCHANGED <<pc, words>>
    /\ UNCHANGED outside_generate
    /\ UNCHANGED call

\* POST /api/generate: generate_automation
generate_automation ==
    /\ pc = "serving"
    /\ response = NoResponse
    /\ IF words = <<>>
       THEN /\ \E body \in BodiesWithoutDescription, get_json_raises \in BOOLEAN :
                response' = rejection(body, get_json_raises)
            /\ UNCHANGED <<llm_initialized, llm_manager, automation,
                           llm_invoked, failure, fell_back>>
       ELSE /\ \E fail \in PossibleFailures : Generate(Text(words), fail)
            /\ response' = [status |-> 200, error |-> "none"]
    /\ UNCHANGED <<pc, words>>
    /\ UNCHANGED outside_generate
    /\ UNCHANGED call

\* generate(description): create_automation_from_description called with any
\* string, the empty one included.
generate ==
    /\ pc = "serving"
    /\ automation = NoAutomation
    /\ \E fail \in PossibleFailures : Generate(Text(words), fail)
    /\ UNCHANGED <<pc, words, response>>
    /\ UNCHANGED outside_generate
    /\ UNCHANGED call

\* The request is over; the next one starts.
NextRequest ==
    /\ pc = "serving"
    /\ response # NoResponse \/ automation # NoAutomation
    /\ words' = <<>>
    /\ automation' = NoAutomation
    /\ response' = NoResponse
    /\ llm_invoked' = FALSE
    /\ failure' = "none"
    /\ call' = "first"
    /\ UNCHANGED <<pc, llm_initialized, llm_manager, fell_back>>
    /\ UNCHANGED outside_generate

\* ---------------------------------------------------- Home Assistant gateway
\* `if HA_TOKEN`
truthy(token) == ~token.is_none /\ token.value # <<>>

\* What Home Assistant does with a call: requests raises a RequestException
\* (connection refused, timeout), or a response with a status code arrives.
ConnectionError == [raised |-> TRUE, status_code |-> 0]

HomeAssistantOutcomes ==
    {ConnectionError} \cup
    {[raised |-> FALSE, status_code |-> s] : s \in {200, 201, 204, 401, 500}}

\* A call sent to Home Assistant, as recorded in outbound.
Sent(endpoint, target, out) ==
    [endpoint |-> endpoint, target |-> target, raised |-> out.raised,
     status_code |-> out.status_code]

\* The response of a gateway handler: the HTTP status, whether the payload
\* has an 'error' key, its 'success' key and its 'filename' key.
Reply(operation, status, error, success, filename) ==
    [operation |-> operation, status |-> status, error |-> error,
     success |-> success, filename |-> filename]

\* What the body of a 200 from GET /api/states is: the list of entities, no
\* JSON (response.json() raises a ValueError, which newer versions of
\* requests make a RequestException), or JSON of another shape.
StatesBodies ==
    {"entities", "not_json_value_error", "not_json_request_exception",
     "not_entities"}

\* A handler that lets the exceptions of requests.get escape.
get_entities_uncaught(token, out, body) ==
    IF ~truthy(token)
    THEN [outbound |-> <<>>,
          response |-> Reply("get_entities", 200, TRUE, "absent", <<>>)]
    ELSE [outbound |-> <<Sent("GET /api/states", <<>>, out)>>,
          response |->
            IF out.raised
            THEN Reply("get_entities", 500, FALSE, "absent", <<>>)
            ELSE IF out.status_code # 200
            THEN Reply("get_entities", out.status_code, TRUE, "absent", <<>>)
            ELSE IF body = "not_json_request_exception"
            THEN Reply("get_entities", 200, TRUE, "absent", <<>>)
            ELSE IF body # "entities"
            THEN Reply("get_entities", 500, TRUE, "absent", <<>>)
            ELSE Reply("get_entities", 200, FALSE, "absent", <<>>)]

\* GET /api/entities: get_entities
get_entities_handler(token, out, body) ==
    IF ~truthy(token)
    THEN [outbound |-> <<>>,
          response |-> Reply("get_entities", 200, TRUE, "absent", <<>>)]
    ELSE [outbound |-> <<Sent("GET /api/states", <<>>, out)>>,
          response |->
            IF out.raised
            THEN Reply("get_entities", 200, TRUE, "absent", <<>>)
            ELSE IF out.status_code # 200
            THEN Reply("get_entities", out.status_code, TRUE, "absent", <<>>)
            ELSE IF body = "not_json_request_exception"
            THEN Reply("get_entities", 200, TRUE, "absent", <<>>)
            ELSE IF body # "entities"
            THEN Reply("get_entities", 500, TRUE, "absent", <<>>)
            ELSE Reply("get_entities", 200, FALSE, "absent", <<>>)]

\* The bodies of a request to POST /api/entity/test.
TestBodies == {"missing", "no_entity_id", "entity_id_not_a_string", "entity_id"}

\* POST /api/entity/test: test_entity
test_entity_handler(token, body, get_json_raises, out) ==
    IF ~truthy(token)
    THEN [outbound |-> <<>>,
          response |-> Reply("test_entity", 200, TRUE, "false", <<>>)]
    ELSE IF body = "missing" /\ get_json_raises
    THEN [outbound |-> <<>>,
          response |-> Reply("test_entity", 500, TRUE, "absent", <<>>)]
    ELSE IF body \in {"missing", "no_entity_id"}
    THEN [outbound |-> <<>>,
          response |-> Reply("test_entity", 400, TRUE, "absent", <<>>)]
    ELSE IF body = "entity_id_not_a_string"
    THEN [outbound |-> <<>>,
          response |-> Reply("test_entity", 500, TRUE, "absent", <<>>)]
    ELSE [outbound |->
            <<Sent("POST /api/services/{domain}/{service}", <<>>, out)>>,
          response |->
            IF out.raised
            THEN Reply("test_entity", 200, TRUE, "false", <<>>)
            ELSE IF out.status_code \notin {200, 201}
            THEN Reply("test_entity", out.status_code, TRUE, "absent", <<>>)
            ELSE Reply("test_entity", 200, FALSE, "true", <<>>)]

\* save_to_home_assistant: the filename keeps this many characters of the
\* alias.
FilenameLimit == 40

kw_dot_yaml == <<".", "y", "a", "m", "l">>

\* automation.get('alias', 'ai_generated')
DefaultAlias ==
    <<"a", "i", "_", "g", "e", "n", "e", "r", "a", "t", "e", "d">>

\* s.replace(' ', '_')
replace_spaces(s) ==
    [i \in 1..Len(s) |-> IF s[i] = " " THEN "_" ELSE s[i]]

\* s.endswith(suffix)
endswith(s, suffix) ==
    /\ Len(s) >= Len(suffix)
    /\ SubSeq(s, Len(s) - Len(suffix) + 1, Len(s)) = suffix

\* A filename cut to 40 characters after '.yaml' was appended.
filename_cut_last(alias) ==
    LET name == replace_spaces(lower(alias))
    IN  Prefix(IF endswith(name, kw_dot_yaml) THEN name
               ELSE name \o kw_dot_yaml, FilenameLimit)

\* save_to_home_assistant: the filename made from the alias
filename_of(alias) ==
    LET cut == Prefix(replace_spaces(lower(alias)), FilenameLimit)
    IN  IF endswith(cut, kw_dot_yaml) THEN cut ELSE cut \o kw_dot_yaml

\* A save that gives up when the reload of the automations is refused.
save_to_home_assistant_reload_checked(alias, reload, post) ==
    LET filename == filename_of(alias)
        reload_call ==
            Sent("POST /api/services/automation/reload", <<>>, reload)
        post_call ==
            Sent("POST /api/config/automation/config/{filename}", filename, post)
    IN  IF reload.raised
        THEN [outbound |-> <<reload_call>>,
              response |-> Reply("save_automation", 500, FALSE, "false", <<>>)]
        ELSE IF reload.status_code \notin {200, 201}
        THEN [outbound |-> <<reload_call>>,
              response |-> Reply("save_automation", reload.status_code,
                                 FALSE, "false", <<>>)]
        ELSE [outbound |-> <<reload_call, post_call>>,
              response |->
                IF post.raised
                THEN Reply("save_automation", 500, FALSE, "false", <<>>)
                ELSE IF post.status_code \in {200, 201}
                THEN Reply("save_automation", 200, FALSE, "true", filename)
                ELSE Reply("save_automation", post.status_code, FALSE,
                           "false", <<>>)]

\* save_to_home_assistant: reload the automations, then post the content
save_to_home_assistant(alias, reload, post) ==
    LET filename == filename_of(alias)
        reload_call ==
            Sent("POST /api/services/automation/reload", <<>>, reload)
        post_call ==
            Sent("POST /api/config/automation/config/{filename}", filename, post)
    IN  IF reload.raised
        THEN [outbound |-> <<reload_call>>,
              response |-> Reply("save_automation", 500, FALSE, "false", <<>>)]
        ELSE [outbound |-> <<reload_call, post_call>>,
              response |->
                IF post.raised
                THEN Reply("save_automation", 500, FALSE, "false", <<>>)
                ELSE IF post.status_code \in {200, 201}
                THEN Reply("save_automation", 200, FALSE, "true", filename)
                ELSE Reply("save_automation", post.status_code, FALSE,
                           "false", <<>>)]

\* The bodies of a request to POST /api/save.
SaveBodies ==
    {"missing", "no_automation", "automation_without_alias",
     "alias_not_a_string", "automation"}

\* POST /api/save: save_automation
save_automation_handler(token, body, alias, get_json_raises, reload, post) ==
    IF body = "missing" /\ get_json_raises
    THEN [outbound |-> <<>>,
          response |-> Reply("save_automation", 500, TRUE, "absent", <<>>)]
    ELSE IF body \in {"missing", "no_automation"}
    THEN [outbound |-> <<>>,
          response |-> Reply("save_automation", 400, TRUE, "absent", <<>>)]
    ELSE IF ~truthy(token)
    THEN [outbound |-> <<>>,
          response |-> Reply("save_automation", 200, FALSE, "true", <<>>)]
    ELSE IF body = "alias_not_a_string"
    THEN [outbound |-> <<>>,
          response |-> Reply("save_automation", 500, TRUE, "absent", <<>>)]
    ELSE save_to_home_assistant(
             IF body = "automation_without_alias" THEN DefaultAlias ELSE alias,
             reload, post)

\* The automations a client saves are generated ones, for descriptions of
\* at most MaxSavedWords phrases, or generated ones the client renamed.
MaxSavedWords == 1

SavedDescriptions ==
    {[i \in 1..n |-> Vocabulary[ix[i]]] :
        n \in 0..MaxSavedWords,
        ix \in [1..MaxSavedWords -> 1..Len(Vocabulary)]}

RenamedAliases ==
    { <<"P", "o", "r", "c", "h", " ", "L", "i", "g", "h", "t", ".", "y", "a", "m", "l">>,
      <<"H", "a", "l", "l", ".", "Y", "A", "M", "L">>,
      <<"T", "u", "r", "n", " ", "o", "n", " ", "t", "h", "e", " ", "p",
        "o", "r", "c", "h", " ", "l", "i", "g", "h", "t", "s", " ", "e",
        "v", "e", "r", "y", " ", "n", "i", "g", "h", ".", "y", "a", "m",
        "l", " ", "(", "c", "o", "p", "y", ")">> }

SavedAliases ==
    {template_skeleton(Text(ws)).alias : ws \in SavedDescriptions}
        \cup RenamedAliases

\* What a gateway request leaves alone.
outside_gateway ==
    <<pc, llm_initialized, llm_manager, words, automation, response,
      llm_invoked, failure, fell_back, environ, steps, dependencies,
      HA_TOKEN, call, yaml_text, parsed>>

\* GET /api/entities
get_entities ==
    /\ pc = "serving"
    /\ ha_response = NoGatewayResponse
    /\ \E out \in HomeAssistantOutcomes, body \in StatesBodies :
        LET r == get_entities_handler(HA_TOKEN, out, body)
        IN  /\ outbound' = r.outbound
            /\ ha_response' = r.response
    /\ request' = [NoRequest EXCEPT !.operation = "get_entities"]
    /\ UNCHANGED outside_gateway

\* POST /api/entity/test
test_entity ==
    /\ pc = "serving"
    /\ ha_response = NoGatewayResponse
    /\ \E body \in TestBodies, get_json_raises \in BOOLEAN,
          out \in HomeAssistantOutcomes :
        LET r == test_entity_handler(HA_TOKEN, body, get_json_raises, out)
        IN  /\ outbound' = r.outbound
            /\ ha_response' = r.response
            /\ request' = [NoRequest EXCEPT !.operation = "test_entity",
                                            !.body = body]
    /\ UNCHANGED outside_gateway

\* POST /api/save
save_automation ==
    /\ pc = "serving"
    /\ ha_response = NoGatewayResponse
    /\ \E body \in SaveBodies, get_json_raises \in BOOLEAN,
          reload, post \in HomeAssistantOutcomes :
        \E alias \in IF body = "automation" THEN SavedAliases ELSE {<<>>} :
            LET r == save_automation_handler(HA_TOKEN, body, alias,
                                             get_json_raises, reload, post)
            IN  /\ outbound' = r.outbound
                /\ ha_response' = r.response
                /\ request' = [operation |-> "save_automation",
                               body |-> body, alias |-> alias]
    /\ UNCHANGED outside_gateway

\* GET /health
health ==
    /\ pc = "serving"
    /\ ha_response = NoGatewayResponse
    /\ outbound' = <<>>
    /\ ha_response' = Reply("health", 200, FALSE, "absent", <<>>)
    /\ request' = [NoRequest EXCEPT !.operation = "health"]
    /\ UNCHANGED outside_gateway

\* The gateway request is over; the next one starts.
NextGatewayRequest ==
    /\ pc = "serving"
    /\ ha_response # NoGatewayResponse
    /\ request' = NoRequest
    /\ outbound' = <<>>
    /\ ha_response' = NoGatewayResponse
    /\ UNCHANGED outside_gateway


\* ------------------------------------------------- the same request again
\* A client sends a description again, and other clients are served between
\* its two requests, for descriptions of at most MaxResentWords phrases.
MaxResentWords == 2

\* The requests of other clients: the five endpoints.
OtherRequests == {"generate", "save", "entities", "test", "health"}

\* The descriptions other clients ask automations for.
OtherDescriptions == {<<"Motion", "detected">>, <<"noon">>}

\* The server handles a request of another client while this client holds
\* the answer to its first request.  What the other client is sent is not
\* recorded; what the request leaves behind in the process is: a generate
\* request runs create_automation_from_description, the gateway handlers
\* write nothing the generators read.
serve_other ==
    /\ pc = "serving"
    /\ response.status = 200
    /\ call \in {"first", "others"}
    /\ Len(words) <= MaxResentWords
    /\ \E kind \in OtherRequests :
        IF kind = "generate"
        THEN \E other \in OtherDescriptions, fail \in PossibleFailures,
                found \in LlamaCppFound :
                LET r == create_automation_from_description(
                             Text(other), llm_initialized, llm_manager,
                             found, fail)
                IN  /\ llm_manager' = r.manager
                    /\ fell_back' = (fell_back \/ fail # "none")
                    /\ llm_initialized' =
                           flag_after_request(llm_initialized, fail)
        ELSE UNCHANGED <<llm_manager, fell_back, llm_initialized>>
    /\ call' = "others"
    /\ UNCHANGED <<pc, words, automation, response, llm_invoked, failure>>
    /\ UNCHANGED outside_generate

\* POST /api/generate with the description of the first request again
generate_again ==
    /\ pc = "serving"
    /\ response.status = 200
    /\ call \in {"first", "others"}
    /\ Len(words) <= MaxResentWords
    /\ \E fail \in PossibleFailures : Generate(Text(words), fail)
    /\ response' = [status |-> 200, error |-> "none"]
    /\ call' = IF call = "first" THEN "second" ELSE "second_after_others"
    /\ UNCHANGED <<pc, words>>
    /\ UNCHANGED outside_generate

\* The server: start-up, then requests to POST /api/generate.
Next ==
    \/ check_and_install_dependencies
    \/ initialize_llm
    \/ llm_disabled
    \/ run_flask_app
    \/ Compose
    \/ generate_automation
    \/ NextRequest

Spec == Init /\ [][Next]_vars

\* The generation entry point called directly with any description.
CoreNext ==
    \/ check_and_install_dependencies
    \/ initialize_llm
    \/ llm_disabled
    \/ run_flask_app
    \/ Compose
    \/ generate
    \/ NextRequest

CoreSpec == Init /\ [][CoreNext]_vars

\* The server: start-up, then generate requests, some of them repeated, with
\* the requests of other clients between.
RepeatNext ==
    \/ Next
    \/ serve_other
    \/ generate_again

RepeatSpec == Init /\ [][RepeatNext]_vars

\* The add-on started with any value of HA_TOKEN.
GatewayInit == Start(TokenValues)

\* The server: start-up, then requests to the Home Assistant gateway.
GatewayNext ==
    \/ check_and_install_dependencies
    \/ initialize_llm
    \/ llm_disabled
    \/ run_flask_app
    \/ get_entities
    \/ test_entity
    \/ save_automation
    \/ health
    \/ NextGatewayRequest

GatewaySpec == GatewayInit /\ [][GatewayNext]_vars

\* ------------------------------------------------ the text of the answer
\* A description whose answer is followed to its text and parsed has at most
\* MaxDumpedWords phrases.
MaxDumpedWords == 2

\* The client writes the next phrase of such a description.
ComposeShort ==
    /\ Len(words) < MaxDumpedWords
    /\ Compose

\* POST /api/generate: generate_automation, with the 'yaml' field that the
\* answer to a description carries beside the automation.
generate_automation_yaml ==
    /\ pc = "serving"
    /\ response = NoResponse
    /\ IF words = <<>>
       THEN /\ \E body \in BodiesWithoutDescription, get_json_raises \in BOOLEAN :
                response' = rejection(body, get_json_raises)
            /\ UNCHANGED <<llm_initialized, llm_manager, automation,
                           llm_invoked, failure, fell_back, yaml_text>>
       ELSE /\ \E fail \in PossibleFailures : Generate(Text(words), fail)
            /\ response' = [status |-> 200, error |-> "none"]
            /\ yaml_text' = Some(dump(automation_dict(automation')))
    /\ UNCHANGED <<pc, words, call, parsed, environ, steps, dependencies,
                   HA_TOKEN, request, outbound, ha_response>>

\* The client parses the text of the answer back.
parse_answer ==
    /\ yaml_text # None
    /\ parsed = None
    /\ parsed' = Some(safe_load(yaml_text.value))
    /\ UNCHANGED <<pc, llm_initialized, llm_manager, words, automation,
                   response, llm_invoked, failure, fell_back, environ, steps,
                   dependencies, HA_TOKEN, request, outbound, ha_response,
                   call, yaml_text>>

\* The server: start-up, then one request to POST /api/generate whose
\* answer the client parses.
YamlNext ==
    \/ check_and_install_dependencies
    \/ initialize_llm
    \/ llm_disabled
    \/ run_flask_app
    \/ ComposeShort
    \/ generate_automation_yaml
    \/ parse_answer

YamlSpec == Init /\ [][YamlNext]_vars

\* ------------------------------------------------------------ properties
\* The description of the current request.
Description == Text(words)

\* create_automation_from_description has returned an automation.
Returned == automation # NoAutomation

\* The returned automation has this trigger and this action and nothing else
\* in the two lists.
Yields(trigger, action) ==
    /\ automation.trigger = <<trigger>>
    /\ automation.action = <<action>>

\* C1: for every description string and either value of the flag, the
\* automation returned by create_automation_from_description has at least
\* one trigger and at least one action.
C1_NonEmptyTriggerAndAction ==
    Returned => Len(automation.trigger) >= 1 /\ Len(automation.action) >= 1

\* An automation returned by the LLM path for a description of full length.
C1_Witness ==
    Returned /\ llm_initialized /\ Len(words) = MaxWords /\ failure = "none"

\* The trigger the simple rule set yields for a description that reads d in
\* lower case: of its three trigger rules the last one that matches.
SimpleTriggerFor(d) ==
    IF Contains(d, kw_motion) /\ Contains(d, kw_detected)
    THEN StateTrigger("binary_sensor.motion_sensor", "on")
    ELSE IF Contains(d, kw_sunrise) \/ Contains(d, kw_dawn)
    THEN SunTrigger("sunrise", "0:00:00")
    ELSE IF Contains(d, kw_sunset) \/ Contains(d, kw_dusk)
    THEN SunTrigger("sunset", "0:00:00")
    ELSE TimeTrigger("12:00:00")

\* The action the simple rule set yields: light off over light on.
SimpleActionFor(d) ==
    IF Contains(d, kw_light) /\ Contains(d, kw_off)
    THEN TargetAction("light.turn_off", "light.living_room")
    ELSE IF Contains(d, kw_light) /\ Contains(d, kw_on)
    THEN TargetAction("light.turn_on", "light.living_room")
    ELSE DataAction("notify.notify", MessagePrefix \o Description)

\* The returned trigger and action are those of the simple rule set.
YieldsSimpleRulesFor(d) ==
    Yields(SimpleTriggerFor(d), SimpleActionFor(d))

\* The returned trigger and action are those of the unmodified skeleton.
YieldsSkeleton ==
    Yields(TimeTrigger("12:00:00"),
           DataAction("notify.notify", MessagePrefix \o Description))

\* C2 as stated: whenever LLM generation fails during a request, the
\* automation returned is the keyword rule engine's output for the
\* description (skeleton plus the matching overrides), and no error is
\* surfaced.
C2_FailureYieldsRuleEngineOutput ==
    (Returned /\ failure # "none") =>
        /\ response.status = 200
        /\ YieldsSimpleRulesFor(lower(Description))

\* C2 amended: no LLM failure is surfaced as an error; a failure that
\* reaches create_automation_from_description yields the output of the
\* simple keyword rules, and a failure caught inside
\* LLMManager.generate_automation yields the unmodified skeleton, whatever
\* keywords the description contains.
C2_FailureFallsBack ==
    (Returned /\ failure # "none") =>
        /\ response.status = 200
        /\ failure = "escaped" => YieldsSimpleRulesFor(lower(Description))
        /\ failure = "caught" => YieldsSkeleton

\* A failure caught inside the manager for a description with keywords.
C2_Witness ==
    /\ Returned
    /\ failure = "caught"
    /\ response.status = 200
    /\ words = <<"Turn on", "lights", "at sunset">>

\* C3: when the flag is false, a generate request never invokes
\* LLMManager.generate_automation; the result is the template skeleton with
\* the simple keyword rules applied.
C3_FlagFalseSkipsLLM ==
    (response.status = 200 /\ ~llm_initialized) =>
        /\ ~llm_invoked
        /\ YieldsSimpleRulesFor(lower(Description))

\* A request with keywords answered while the flag is false.
C3_Witness ==
    /\ response.status = 200
    /\ ~llm_initialized
    /\ ~llm_invoked
    /\ words = <<"Turn on", "lights", "at sunset">>

\* C4: once the server handles requests no step changes the flag, and after
\* a request that fell back the next generate request runs the LLM path
\* again.
C4_FlagReadOnly ==
    [][pc = "serving" =>
        /\ llm_initialized' = llm_initialized
        /\ (fell_back /\ response.status = 0 /\ response'.status = 200)
              => llm_invoked']_vars

\* A request served by the LLM path after an earlier request fell back.
C4_Witness ==
    /\ fell_back
    /\ failure = "none"
    /\ response.status = 200
    /\ llm_initialized
    /\ llm_invoked

\* The trigger rules of the simple rule set, in the rule table's order,
\* with whether each matches a description that reads d in lower case.
SimpleTriggerTable(d) ==
    << [hit |-> Contains(d, kw_sunset) \/ Contains(d, kw_dusk),
        value |-> SunTrigger("sunset", "0:00:00")],
       [hit |-> Contains(d, kw_sunrise) \/ Contains(d, kw_dawn),
        value |-> SunTrigger("sunrise", "0:00:00")],
       [hit |-> Contains(d, kw_motion) /\ Contains(d, kw_detected),
        value |-> StateTrigger("binary_sensor.motion_sensor", "on")] >>

\* The trigger rules of the richer rule set, in the rule table's order.
SmartTriggerTable(d) ==
    << [hit |-> Contains(d, kw_motion),
        value |-> StateTrigger("binary_sensor.motion_sensor", "on")],
       [hit |-> Contains(d, kw_door)
                  /\ (Contains(d, kw_open) \/ Contains(d, kw_opened)),
        value |-> StateTrigger("binary_sensor.door_sensor", "on")],
       [hit |-> Contains(d, kw_door)
                  /\ (Contains(d, kw_close) \/ Contains(d, kw_closed)),
        value |-> StateTrigger("binary_sensor.door_sensor", "off")],
       [hit |-> \/ Contains(d, kw_morning)
                \/ Contains(d, kw_sunrise)
                \/ Contains(d, kw_dawn),
        value |-> SunTrigger("sunrise", "0:30:00")],
       [hit |-> \/ Contains(d, kw_evening)
                \/ Contains(d, kw_sunset)
                \/ Contains(d, kw_dusk),
        value |-> SunTrigger("sunset", "0:00:00")],
       [hit |-> Contains(d, kw_midnight), value |-> TimeTrigger("00:00:00")],
       [hit |-> Contains(d, kw_noon), value |-> TimeTrigger("12:00:00")] >>

\* The action rules of the simple rule set, in the rule table's order.
SimpleActionTable(d) ==
    << [hit |-> Contains(d, kw_light) /\ Contains(d, kw_on),
        value |-> TargetAction("light.turn_on", "light.living_room")],
       [hit |-> Contains(d, kw_light) /\ Contains(d, kw_off),
        value |-> TargetAction("light.turn_off", "light.living_room")] >>

\* The action rules of the richer rule set, in the rule table's order.
SmartActionTable(d) ==
    << [hit |-> Contains(d, kw_light)
                  /\ \/ Contains(d, kw_on)
                     \/ Contains(d, kw_turn_on)
                     \/ Contains(d, kw_enable),
        value |-> TargetAction("light.turn_on", "light.living_room")],
       [hit |-> Contains(d, kw_light)
                  /\ \/ Contains(d, kw_off)
                     \/ Contains(d, kw_turn_off)
                     \/ Contains(d, kw_disable),
        value |-> TargetAction("light.turn_off", "light.living_room")],
       [hit |-> \/ Contains(d, kw_notification)
                \/ Contains(d, kw_notify)
                \/ Contains(d, kw_alert),
        value |-> DataAction("notify.mobile_app", Description)] >>

\* The rules of a table that match, by position.
Hits(table) == {i \in 1..Len(table) : table[i].hit}

\* The value of the latest and of the earliest matching rule of a table.
LatestHit(table) ==
    table[CHOOSE i \in Hits(table) : \A j \in Hits(table) : j <= i].value

EarliestHit(table) ==
    table[CHOOSE i \in Hits(table) : \A j \in Hits(table) : i <= j].value

\* More than one rule of the table matches.
SeveralHit(table) == Cardinality(Hits(table)) > 1

\* The trigger rules of the generator that handles the request.
TriggerTable ==
    IF llm_initialized
    THEN SmartTriggerTable(lower(Description))
    ELSE SimpleTriggerTable(lower(Description))

\* The action rules of the generator that handles the request.
ActionTable ==
    IF llm_initialized
    THEN SmartActionTable(lower(Description))
    ELSE SimpleActionTable(lower(Description))

\* Whenever several rules of the table match, the latest decides the field.
LatestDecides(field, table) ==
    SeveralHit(table) => field = <<LatestHit(table)>>

\* Whenever several rules of the table match, the one the generator prefers
\* decides the field: the earliest on the LLM path, the latest on the
\* template path.
PreferredDecides(field, table) ==
    SeveralHit(table) =>
        field = <<IF llm_initialized
                  THEN EarliestHit(table)
                  ELSE LatestHit(table)>>

\* C5 as stated: when more than one trigger rule of the rule table matches,
\* the returned trigger is the value of the matching rule that comes latest
\* in the table, whichever generator handles the request.
C5_LatestTriggerRuleWins ==
    (Returned /\ failure = "none") =>
        LatestDecides(automation.trigger, TriggerTable)

\* C5 amended: when more than one trigger rule matches, the template path
\* returns the trigger of the latest matching rule of the simple rule set,
\* and the LLM path returns the trigger of the earliest matching rule in the
\* table's order (motion, door open, door close, morning, evening, midnight,
\* noon).
C5_TriggerPrecedence ==
    (Returned /\ failure = "none") =>
        PreferredDecides(automation.trigger, TriggerTable)

\* The LLM path answers a description with motion, door and open.
C5_Witness ==
    /\ Returned
    /\ failure = "none"
    /\ llm_initialized
    /\ words = <<"Motion", "door", "opened">>
    /\ automation.trigger =
         <<StateTrigger("binary_sensor.motion_sensor", "on")>>

\* C6 as stated: when more than one action rule matches, the returned action
\* is that of the latest matching rule: light with off gives light.turn_off
\* even when "on" is contained too, and a notification keyword gives
\* notify.mobile_app with the full description even when a light rule
\* matches.
C6_LatestActionRuleWins ==
    (Returned /\ failure = "none") =>
        LatestDecides(automation.action, ActionTable)

\* C6 amended: when more than one action rule matches, the template path
\* (light on, light off) returns the action of the latest matching rule and
\* the LLM path (light on, light off, notification) that of the earliest:
\* there light with "on" gives light.turn_on even when "off" is contained,
\* and a notification keyword gives notify.mobile_app only when no light
\* rule matches.
C6_ActionPrecedence ==
    (Returned /\ failure = "none") =>
        PreferredDecides(automation.action, ActionTable)

\* The LLM path answers "turn off lights Motion" with light.turn_on.
C6_Witness ==
    /\ Returned
    /\ failure = "none"
    /\ llm_initialized
    /\ words = <<"turn off", "lights", "Motion">>
    /\ automation.action =
         <<TargetAction("light.turn_on", "light.living_room")>>


\* The returned trigger is the motion-sensor trigger if d contains "motion"
\* and "detected".
MotionDetectedDecides(d) ==
    (Contains(d, kw_motion) /\ Contains(d, kw_detected)) =>
        automation.trigger =
            <<[platform |-> "state",
               entity_id |-> "binary_sensor.motion_sensor",
               to |-> "on"]>>

\* C7: for every description containing "motion" and "detected" in any
\* letter case, the returned trigger is the motion-sensor state trigger,
\* whatever sun or time keywords it contains, under either value of the
\* flag.
C7_MotionDetectedWins ==
    (Returned /\ failure = "none") =>
        MotionDetectedDecides(lower(Description))

\* "Motion detected at sunset" answered by the template path.
C7_Witness ==
    /\ Returned
    /\ failure = "none"
    /\ ~llm_initialized
    /\ words = <<"Motion", "detected", "at sunset">>

\* d contains "sunset", "light" and "on" and no keyword of a rule other
\* than the sunset rule and the light-on rule.
OnlySunsetAndLightOn(d) ==
    /\ Contains(d, kw_sunset) /\ Contains(d, kw_light) /\ Contains(d, kw_on)
    /\ \A keyword \in {kw_sunrise, kw_dawn, kw_morning, kw_midnight, kw_noon,
                       kw_motion, kw_detected, kw_door, kw_open, kw_close,
                       kw_off, kw_disable, kw_notification, kw_notify,
                       kw_alert} :
        ~Contains(d, keyword)

\* C8: trigger rules and action rules apply independently: a description
\* with "sunset", "light" and "on" and no keyword of another rule gets the
\* sun/sunset trigger with offset 0:00:00 and the light.turn_on action on
\* light.living_room, under either value of the flag.
C8_TriggerAndActionIndependent ==
    (Returned /\ failure = "none" /\ OnlySunsetAndLightOn(lower(Description)))
        => Yields([platform |-> "sun", event |-> "sunset",
                   offset |-> "0:00:00"],
                  [service |-> "light.turn_on",
                   target |-> [entity_id |-> "light.living_room"]])

\* "Turn on lights at sunset" answered by the LLM path.
C8_Witness ==
    /\ Returned
    /\ failure = "none"
    /\ llm_initialized
    /\ words = <<"Turn on", "lights", "at sunset">>

\* No rule of either rule set matches a description that reads d in lower
\* case.
NoRuleMatches(d) ==
    /\ Hits(SimpleTriggerTable(d)) = {}
    /\ Hits(SmartTriggerTable(d)) = {}
    /\ Hits(SimpleActionTable(d)) = {}
    /\ Hits(SmartActionTable(d)) = {}

\* C9: for every description that matches no keyword rule, the empty string
\* included, the rule engine returns the unmodified skeleton: time trigger
\* at 12:00:00, no condition, notify.notify with the message "Automation
\* triggered: " + description, mode single, and the alias "AI Generated: " +
\* description when the description has at most 50 characters.
C9_UnmatchedGivesSkeleton ==
    (Returned /\ NoRuleMatches(lower(Description))) =>
        /\ automation.trigger = <<[platform |-> "time", at |-> "12:00:00"]>>
        /\ automation.condition = <<>>
        /\ automation.action =
             <<[service |-> "notify.notify",
                data |-> [message |-> MessagePrefix \o Description]]>>
        /\ automation.mode = "single"
        /\ Len(Description) <= 50 =>
             automation.alias = AliasPrefix \o Description

\* The skeleton returned for the empty description.
C9_Witness ==
    /\ Returned
    /\ words = <<>>
    /\ automation.alias = AliasPrefix
    /\ automation.trigger = <<[platform |-> "time", at |-> "12:00:00"]>>

\* d contains "sunrise" or "dawn" and neither "motion" nor "door".
SunriseWithoutSensor(d) ==
    /\ Contains(d, kw_sunrise) \/ Contains(d, kw_dawn)
    /\ ~Contains(d, kw_motion)
    /\ ~Contains(d, kw_door)

\* C10: for a description containing "sunrise" or "dawn" and no motion or
\* door keyword, the template path returns a sun/sunrise trigger with offset
\* 0:00:00 and the LLM path one with offset 0:30:00.
C10_SunriseOffsetDependsOnFlag ==
    (Returned /\ failure = "none" /\ SunriseWithoutSensor(lower(Description)))
        => automation.trigger =
             <<[platform |-> "sun", event |-> "sunrise",
                offset |-> IF llm_initialized THEN "0:30:00" ELSE "0:00:00"]>>

\* A dawn description answered by the LLM path with the 0:30:00 offset.
C10_Witness ==
    /\ Returned
    /\ failure = "none"
    /\ llm_initialized
    /\ words = <<"lights", "dawn">>
    /\ automation.trigger = <<SunTrigger("sunrise", "0:30:00")>>

\* C12: the alias of every generated automation is "AI Generated: " followed
\* by the whole description when the description has at most 50 characters,
\* and otherwise by its first 50 characters and "..."; no alias is longer
\* than 67 characters.
C12_AliasBounded ==
    Returned =>
        /\ Len(Description) <= 50 =>
             automation.alias = AliasPrefix \o Description
        /\ Len(Description) > 50 =>
             automation.alias =
                 AliasPrefix \o SubSeq(Description, 1, 50) \o Ellipsis
        /\ Len(automation.alias) <= 67

\* A description of 52 characters answered with an alias of 67.
C12_Witness ==
    /\ Returned
    /\ Len(Description) = 52
    /\ Len(automation.alias) = 67
    /\ SubSeq(automation.alias, 65, 67) = Ellipsis


\* C16: every automation returned by generate, by either generator and by
\* either fallback, has mode "single", exactly one trigger, exactly one
\* action and an empty condition list.
C16_OneTriggerOneAction ==
    Returned =>
        /\ automation.mode = "single"
        /\ Len(automation.trigger) = 1
        /\ Len(automation.action) = 1
        /\ automation.condition = <<>>

\* The LLM path answers a description that matches a time rule, a sensor
\* rule and an action rule at once.
C16_Witness ==
    /\ Returned
    /\ llm_initialized
    /\ failure = "none"
    /\ words = <<"lights", "Motion", "at sunset">>
    /\ automation.mode = "single"
    /\ Len(automation.trigger) = 1


\* C15: a generate request without a body, or without a description, or with
\* the empty description is answered with an error, and neither the LLM
\* generator nor the keyword rule engine has run for it.
C15_NoDescriptionRejected ==
    (words = <<>> /\ response # NoResponse) =>
        /\ response.status \in {400, 500}
        /\ response.error # "none"
        /\ automation = NoAutomation
        /\ ~llm_invoked

\* A request without description rejected while the LLM flag is set.
C15_Witness ==
    /\ words = <<>>
    /\ llm_initialized
    /\ response = [status |-> 400, error |-> "No description provided"]
    /\ automation = NoAutomation


\* main() has called the function.
Called(function) == \E i \in DOMAIN steps : steps[i] = function

RicherRulesDecide(d) ==
    /\ Hits(SmartTriggerTable(d)) # {} =>
         automation.trigger = <<EarliestHit(SmartTriggerTable(d))>>
    /\ Hits(SmartActionTable(d)) # {} =>
         automation.action = <<EarliestHit(SmartActionTable(d))>>

\* C19: whenever the flag llm_initialized is true, the singleton manager is
\* the one instance constructed and initialized at start-up and its field
\* initialized is true; a request the LLM path answers without an exception
\* therefore gets the output of the richer rule set, not the bare skeleton.
C19_FlagMeansInitializedSingleton ==
    llm_initialized =>
        /\ llm_manager.created
        /\ llm_manager.initialized
        /\ llm_manager.instance = 1
        /\ Called("initialize_llm")
        /\ (Returned /\ failure = "none") =>
               RicherRulesDecide(lower(Description))

\* A request answered by the initialized singleton with a door trigger and
\* the mobile notification of the richer rule set.
C19_Witness ==
    /\ llm_initialized
    /\ llm_manager.initialized
    /\ llm_invoked
    /\ failure = "none"
    /\ words = <<"notify", "door", "opened">>
    /\ Yields(StateTrigger("binary_sensor.door_sensor", "on"),
              DataAction("notify.mobile_app", Description))


\* ------------------------------------------------- properties of the gateway
\* The save request was handed to save_to_home_assistant, which sent the
\* content post.
ContentPosted ==
    /\ ha_response.operation = "save_automation"
    /\ Len(outbound) = 2

\* The alias save_to_home_assistant reads from the automation of the request.
AliasRead ==
    IF request.body = "automation_without_alias"
    THEN <<"a", "i", "_", "g", "e", "n", "e", "r", "a", "t", "e", "d">>
    ELSE request.alias

\* name is the first 40 characters of alias (all of it when it is shorter),
\* lower-cased and with "_" for every space, followed by ".yaml" unless
\* these characters end in ".yaml" themselves.
IsFilenameOf(name, alias) ==
    LET n == IF Len(alias) < 40 THEN Len(alias) ELSE 40
        suffixed == /\ n >= 5
                    /\ lower(SubSeq(alias, n - 4, n)) = <<".", "y", "a", "m", "l">>
    IN  /\ Len(name) = IF suffixed THEN n ELSE n + 5
        /\ \A i \in 1..n :
             name[i] = IF alias[i] = " " THEN "_" ELSE lower(<<alias[i]>>)[1]
        /\ ~suffixed => SubSeq(name, n + 1, n + 5) = <<".", "y", "a", "m", "l">>

\* C13: the filename an automation is posted under is its alias in lower
\* case with an underscore for every space, cut to 40 characters, with
\* ".yaml" appended unless the cut name ends in ".yaml"; it ends in ".yaml",
\* contains no space and has at most 45 characters.
C13_Filename ==
    ContentPosted =>
        LET name == outbound[2].target
        IN  /\ IsFilenameOf(name, AliasRead)
            /\ Len(name) >= 5
            /\ SubSeq(name, Len(name) - 4, Len(name)) =
                   <<".", "y", "a", "m", "l">>
            /\ \A i \in 1..Len(name) : name[i] # " "
            /\ Len(name) <= 45

\* An alias of more than 40 characters with spaces and capitals, saved
\* under a name of 45 characters.
C13_Witness ==
    /\ ContentPosted
    /\ Len(request.alias) > 40
    /\ \E i \in 1..40 : request.alias[i] = " "
    /\ request.alias[1] = "A"
    /\ Len(outbound[2].target) = 45
    /\ ha_response.filename = outbound[2].target

\* The call met a connection failure or was answered outside 200..299.
Failed(sent) == sent.raised \/ sent.status_code \notin 200..299

\* A gateway operation has answered its caller.
GatewayAnswered ==
    ha_response.operation \in {"get_entities", "test_entity", "save_automation"}

\* The caller gets a payload that reports the failure, and the server is
\* still serving.
FailureSurfaced ==
    /\ ha_response.error \/ ha_response.success = "false"
    /\ ha_response.status \in 200..599
    /\ pc = "serving"

\* C14 as stated: a gateway operation any of whose calls to Home Assistant
\* met a connection failure or a response outside 2xx returns an error or
\* failure payload, and the server keeps serving.
C14_EveryFailedCallSurfaced ==
    (GatewayAnswered /\ \E i \in DOMAIN outbound : Failed(outbound[i]))
        => FailureSurfaced

\* C14 amended: a gateway operation returns an error or failure payload, and
\* the server keeps serving, whenever the call that decides its outcome (the
\* states query, the service call, the content post of a save, or the reload
\* call of a save when that call cannot connect) met a connection failure or
\* a response outside 2xx; a response outside 2xx to the reload call of a
\* save is not reported.
C14_DecidingFailureSurfaced ==
    (GatewayAnswered /\ outbound # <<>> /\ Failed(outbound[Len(outbound)]))
        => FailureSurfaced

\* A save whose content post Home Assistant refused with 401.
C14_Witness ==
    /\ ha_response.operation = "save_automation"
    /\ Len(outbound) = 2
    /\ outbound[2].status_code = 401
    /\ ha_response.success = "false"
    /\ ha_response.status = 401
    /\ pc = "serving"


\* What the caller of a save is told when the content post had this outcome.
ReportFor(post) ==
    IF post.raised THEN [success |-> "false", status |-> 500]
    ELSE IF post.status_code \in {200, 201}
    THEN [success |-> "true", status |-> 200]
    ELSE [success |-> "false", status |-> post.status_code]

C11_SameDescriptionSameAutomation ==
    [][(/\ call \in {"first", "others"}
        /\ call' \in {"second", "second_after_others"}
        /\ llm_initialized' = llm_initialized
        /\ failure' = failure)
       => (words' = words /\ automation' = automation)]_vars

\* The second answer to a description, sent by the LLM path after another
\* client's request fell back between the two.
C11_Witness ==
    /\ call = "second_after_others"
    /\ fell_back
    /\ llm_initialized
    /\ failure = "none"
    /\ words = <<"lights", "Motion">>
    /\ automation.trigger = <<StateTrigger("binary_sensor.motion_sensor", "on")>>


\* The keys of a dict, in its order.
KeysOf(node) == [i \in 1..Len(node.items) |-> node.items[i].key.value]

\* C17: the block-style text of a returned automation parses back to a dict
\* equal to the automation's, nested dicts and lists included, whose keys
\* come in the order alias, description, trigger, condition, action, mode
\* and whose lists keep their order.
C17_RoundTrip ==
    parsed # None =>
        /\ parsed.value = automation_dict(automation)
        /\ KeysOf(parsed.value) =
               <<Chars["alias"], Chars["description"], Chars["trigger"],
                 Chars["condition"], Chars["action"], Chars["mode"]>>

\* C17 happens: an answer whose description line is folded and whose time
\* of day is quoted has been parsed back.
C17_Witness ==
    /\ parsed # None
    /\ words = <<"notification",
                 "each weekday while we are away from the house">>
    /\ automation.trigger = <<TimeTrigger("12:00:00")>>
    /\ Len(yaml_text.value) = 12
    /\ yaml_text.value[3] =
           <<" ", " ", "h", "o", "u", "s", "e", "'">>
    /\ yaml_text.value[6] =
           <<" ", " ", "a", "t", ":", " ", "'", "1", "2", ":", "0", "0", ":",
             "0", "0", "'">>


\* No Home Assistant token is configured: HA_TOKEN is empty or holds white
\* space only.
NoTokenConfigured == strip(environ.HA_TOKEN) = <<>>

\* The answer is an error payload with status 200.
ErrorPayload200 == ha_response.status = 200 /\ ha_response.error

\* The answer is the success of the demo mode: status 200, success true, no
\* error and no filename, as nothing was saved.
DemoModeSuccess ==
    /\ ha_response.status = 200
    /\ ~ha_response.error
    /\ ha_response.success = "true"
    /\ ha_response.filename = <<>>

\* The save request carries automation data.
CarriesAutomation == request.body \notin {"missing", "no_automation"}

\* C21 as stated: without a token no request sends a call to Home
\* Assistant, every save is answered with the success of the demo mode, and
\* entity fetch and entity test are answered with an error payload and
\* status 200.
C21_EverySaveDemoSuccess ==
    NoTokenConfigured =>
        /\ outbound = <<>>
        /\ request.operation = "save_automation" => DemoModeSuccess
        /\ request.operation \in {"get_entities", "test_entity"}
               => ErrorPayload200

\* C21: without a token no request sends a call to Home Assistant, a save
\* that carries automation data is answered with the success of the demo
\* mode, a save without it with an error and no success, and entity fetch
\* and entity test are answered with an error payload and status 200.
C21_NoTokenNoOutboundCall ==
    NoTokenConfigured =>
        /\ outbound = <<>>
        /\ (request.operation = "save_automation" /\ CarriesAutomation)
               => DemoModeSuccess
        /\ (request.operation = "save_automation" /\ ~CarriesAutomation)
               => (/\ ha_response.status \in {400, 500}
                   /\ ha_response.error
                   /\ ha_response.success = "absent")
        /\ request.operation \in {"get_entities", "test_entity"}
               => ErrorPayload200
        /\ request.operation = "test_entity" => ha_response.success = "false"

\* C21 happens: the server started with a HA_TOKEN of white space only and
\* has answered a save of a generated automation in demo mode.
C21_Witness ==
    /\ environ.HA_TOKEN = <<" ", " ">>
    /\ HA_TOKEN = None
    /\ request.operation = "save_automation"
    /\ request.body = "automation"
    /\ request.alias \in SavedAliases
    /\ DemoModeSuccess
    /\ outbound = <<>>

====
